---- MODULE Spec2Model ----
(***************************************************************************)
(* A model of the reactive state store of Juris (class StateManager of the *)
(* bundle src/unnamed/part_001): the path-addressed state tree, the        *)
(* middleware chain, the reactive (internal) and the external subscribers, *)
(* the notification pass with its re-entrancy guards, and update batching. *)
(*                                                                         *)
(* JavaScript runs one handler at a time.  A top-level call of the store   *)
(* (setState, subscribe, the batching timer, ...) is one action; it runs   *)
(* up to the first subscriber callback it has to invoke.  Every callback   *)
(* invocation is one further action (Step); no other call of the store may *)
(* start before the pending work (todo) is empty.                          *)
(***************************************************************************)
EXTENDS Integers, Sequences, FiniteSets, TLC

\* ------------------------------------------------------------------ bounds

\* Numbers stored in the tree are 1..MaxVal.
MaxVal == 2
\* Subscriptions (reactive and external together) ever registered in a run.
MaxSubs == 2
\* Update records the queue may hold before the model stops enqueueing.
MaxQueue == 3
\* setTimeout(..., 0) timers that may be pending at once.
MaxTimers == 2

\* --------------------------------------------------------------- JS values

Null == [t |-> "null"]
Undefined == [t |-> "undefined"]
Num(n) == [t |-> "num", n |-> n]
Obj(f) == [t |-> "obj", f |-> f]
EmptyFn == [k \in {} |-> Null]
EmptyObj == Obj(EmptyFn)

\* typeof v
TypeOf(v) ==
  CASE v.t = "num" -> "number"
    [] v.t = "undefined" -> "undefined"
    [] v.t = "str" -> "string"
    [] OTHER -> "object"

\* v == null  (null or undefined)
IsNullish(v) == v.t \in {"null", "undefined"}

\* the index a key of one digit names, -1 for any other key
IndexOf(key) ==
  IF Len(key) = 1 /\ key[1] \in {"0", "1", "2", "3", "4", "5", "6", "7", "8", "9"}
  THEN CHOOSE n \in 0..9 : <<"0", "1", "2", "3", "4", "5", "6", "7", "8", "9">>[n + 1] = key[1]
  ELSE -1

\* obj[key]: undefined when obj is no object or has no such own key.  An array
\* has its elements and its length, a string its characters and its length.
Prop(v, key) ==
  IF v.t = "obj" THEN (IF key \in DOMAIN v.f THEN v.f[key] ELSE Undefined)
  ELSE IF v.t = "arr"
       THEN IF key = <<"l", "e", "n", "g", "t", "h">> THEN [t |-> "num", n |-> Len(v.items)]
            ELSE IF IndexOf(key) >= 0
                 THEN (IF IndexOf(key) < Len(v.items) THEN v.items[IndexOf(key) + 1]
                       ELSE Undefined)
            ELSE IF "f" \in DOMAIN v /\ key \in DOMAIN v.f THEN v.f[key] ELSE Undefined
  ELSE IF v.t = "str"
       THEN IF key = <<"l", "e", "n", "g", "t", "h">> THEN [t |-> "num", n |-> Len(v.s)]
            ELSE IF IndexOf(key) >= 0 /\ IndexOf(key) < Len(v.s)
                 THEN [t |-> "str", s |-> <<v.s[IndexOf(key) + 1]>>] ELSE Undefined
  ELSE Undefined

\* the properties of an array that are neither an element nor its length
OwnOf(array) == IF "f" \in DOMAIN array THEN array.f ELSE [k \in {} |-> [t |-> "null"]]

\* obj[key] = v
Put(f, key, v) == [x \in (DOMAIN f) \cup {key} |-> IF x = key THEN v ELSE f[x]]

\* ------------------------------------------------------------------- paths
\* A path is a JavaScript string: here the sequence of its characters.
\* A segment (a key of an object of the tree) is a sequence of characters too.

P_a == <<"a">>
P_ab == <<"a", ".", "b">>
P_b == <<"b">>
P_dot == <<".">>
P_dotdot == <<".", ".">>
P_empty == <<>>
P_blank == <<" ">>
P_escape == <<"a", ".", ".", "b">>
\* A path argument that is not a string (the number 7, say): the one path
\* value of the model of which typeof path === 'string' is false.
NotAString == <<"#7">>

\* The key JavaScript makes of parts[-1] (undefined) in current[parts[parts.length - 1]].
KeyUndefined == <<"undefined">>

RECURSIVE TrimLeft(_)
TrimLeft(s) == IF s # <<>> /\ Head(s) = " " THEN TrimLeft(Tail(s)) ELSE s

RECURSIVE TrimRight(_)
TrimRight(s) ==
  IF s # <<>> /\ s[Len(s)] = " " THEN TrimRight(SubSeq(s, 1, Len(s) - 1)) ELSE s

\* path.trim()
Trim(s) == TrimRight(TrimLeft(s))

\* path.startsWith(prefix)
StartsWith(s, prefix) ==
  Len(prefix) <= Len(s) /\ SubSeq(s, 1, Len(prefix)) = prefix

\* path.includes(sub)
Includes(s, sub) ==
  \E i \in 1..(Len(s) - Len(sub) + 1) : SubSeq(s, i, i + Len(sub) - 1) = sub

\* a store that rejects no path: the alternative C11 is tested against
isValidPathAcceptsAll(path) == TRUE

\* typeof path === 'string' && path.trim().length > 0 && !path.includes('..')
isValidPath(path) ==
  path # NotAString /\ Len(Trim(path)) > 0 /\ ~Includes(path, <<".", ".">>)

RECURSIVE SplitDot(_, _, _)
SplitDot(s, cur, acc) ==
  IF s = <<>> THEN Append(acc, cur)
  ELSE IF Head(s) = "." THEN SplitDot(Tail(s), <<>>, Append(acc, cur))
  ELSE SplitDot(Tail(s), Append(cur, Head(s)), acc)

\* path.split('.').filter(Boolean)
getPathParts(path) == SelectSeq(SplitDot(path, <<>>, <<>>), LAMBDA p : p # <<>>)

RECURSIVE JoinDot(_)
\* parts.join('.')
JoinDot(parts) ==
  IF parts = <<>> THEN <<>>
  ELSE IF Len(parts) = 1 THEN parts[1]
  ELSE parts[1] \o <<".">> \o JoinDot(Tail(parts))

\* ------------------------------------------------------------- deepEquals

\* a === b alone: the alternative C7 is tested against
deepEqualsByIdentity(a, b) == a.t # "obj" /\ a = b

RECURSIVE deepEquals(_, _)
\* a === b is value equality for primitives and identity for objects; two
\* references to one object are structurally equal as well, so the identity
\* case is subsumed by the structural comparison below.
deepEquals(a, b) ==
  IF a.t # "obj" /\ a = b THEN TRUE
  ELSE IF IsNullish(a) \/ IsNullish(b) THEN FALSE
  ELSE IF TypeOf(a) # TypeOf(b) THEN FALSE
  ELSE IF TypeOf(a) = "object"
       THEN IF (a.t = "arr") # (b.t = "arr") THEN FALSE
            ELSE IF a.t = "arr"
                 THEN /\ Len(a.items) = Len(b.items)
                      /\ \A i \in 1..Len(a.items) : deepEquals(a.items[i], b.items[i])
                      /\ DOMAIN OwnOf(a) = DOMAIN OwnOf(b)
                      /\ \A k \in DOMAIN OwnOf(a) : deepEquals(OwnOf(a)[k], OwnOf(b)[k])
            ELSE /\ Cardinality(DOMAIN a.f) = Cardinality(DOMAIN b.f)
                 /\ \A k \in DOMAIN a.f : k \in DOMAIN b.f /\ deepEquals(a.f[k], b.f[k])
  ELSE FALSE

\* ---------------------------------------------------------- tree read/write

RECURSIVE Walk(_, _, _)
\* the loop of getState: defaultValue as soon as a segment is absent
Walk(current, parts, defaultValue) ==
  IF parts = <<>> THEN current
  ELSE IF IsNullish(current) \/ Prop(current, Head(parts)) = Undefined THEN defaultValue
  ELSE Walk(Prop(current, Head(parts)), Tail(parts), defaultValue)

\* getState(path, defaultValue) without its validity check and tracking
Lookup(tree, path, defaultValue) == Walk(tree, getPathParts(path), defaultValue)

RECURSIVE WriteAtFresh(_, _, _)
\* a write that makes every mapping on its way anew: the alternative C40 is
\* tested against
WriteAtFresh(obj, parts, v) ==
  IF Len(parts) = 1 THEN [t |-> "obj", f |-> Put(obj.f, parts[1], v)]
  ELSE [t |-> "obj", f |-> Put(obj.f, parts[1], WriteAtFresh(EmptyObj, Tail(parts), v))]

\* current[key] = v, for an object of the tree and for an array (of which
\* the application assigns no length, and no element past its end)
Assigned(current, key, v) ==
  IF current.t = "arr"
  THEN IF IndexOf(key) >= 0
       THEN [current EXCEPT !.items =
               IF IndexOf(key) < Len(@)
               THEN [i \in 1..Len(@) |-> IF i = IndexOf(key) + 1 THEN v ELSE @[i]]
               ELSE Append(@, v)]
       ELSE [t |-> "arr", items |-> current.items, f |-> Put(OwnOf(current), key, v)]
  ELSE Obj(Put(current.f, key, v))

RECURSIVE WriteAt(_, _, _)
WriteAt(obj, parts, v) ==
  IF Len(parts) = 1 THEN Assigned(obj, parts[1], v)
  ELSE LET child == Prop(obj, parts[1])
           base == IF IsNullish(child) \/ TypeOf(child) # "object" THEN EmptyObj ELSE child
       IN  Assigned(obj, parts[1], WriteAt(base, Tail(parts), v))

\* the write of _setStateImmediate: intermediate mappings created on the way
WriteTree(tree, path, v) ==
  LET parts == getPathParts(path)
  IN  IF parts = <<>> THEN Obj(Put(tree.f, KeyUndefined, v)) ELSE WriteAt(tree, parts, v)

\* -------------------------------------------------------------- middleware

\* A middleware is a function of the application.  The model knows four:
\*   "pass"  returns undefined (the value is kept),
\*   "cap"   returns 1 for every number above 1 (a transformation),
\*   "veto"  returns oldValue (null when the path holds nothing),
\*   "throw" throws.
\* What a middleware that throws leaves in place of a result.
Thrown == [t |-> "thrown"]

MiddlewareResult(kind, oldValue, newValue) ==
  CASE kind = "pass" -> Undefined
    [] kind = "cap" -> IF newValue.t = "num" /\ newValue.n > 1 THEN Num(1) ELSE Undefined
    [] kind = "veto" -> oldValue
    [] OTHER -> Thrown

\* a loop whose catch loses the value: the alternative C10 is tested against
MiddlewareStepAbort(finalValue, result) ==
  IF result = Thrown THEN Undefined
  ELSE IF result # Undefined THEN result ELSE finalValue

\* one turn of the loop over this.middleware: the catch keeps finalValue
MiddlewareStep(finalValue, result) ==
  IF result = Thrown THEN finalValue
  ELSE IF result # Undefined THEN result ELSE finalValue

RECURSIVE RunMiddleware(_, _, _)
\* the value _setStateImmediate ends with after its middleware loop
RunMiddleware(mws, oldValue, value) ==
  IF mws = <<>> THEN value
  ELSE RunMiddleware(Tail(mws), oldValue,
                     MiddlewareStep(value, MiddlewareResult(Head(mws), oldValue, value)))

RECURSIVE MiddlewareErrors(_, _, _)
\* the console.error lines of the loop, one per middleware that threw
MiddlewareErrors(mws, oldValue, value) ==
  IF mws = <<>> THEN <<>>
  ELSE LET r == MiddlewareResult(Head(mws), oldValue, value)
       IN  (IF r = Thrown THEN <<[e |-> "error", msg |-> "Middleware error"]>> ELSE <<>>)
           \o MiddlewareErrors(Tail(mws), oldValue, MiddlewareStep(value, r))

\* --------------------------------------------------------------- the store

VARIABLES
  state,                 \* this.state: the tree, an object value
  initialState,          \* this.initialState: the snapshot taken by the constructor
  middleware,            \* this.middleware: a sequence of middleware kinds
  subscribers,           \* this.subscribers: Map path -> Set of callbacks, in insertion order
  externalSubscribers,   \* this.externalSubscribers: Map path -> Set of {callback, hierarchical}
  currentTracking,       \* this.currentTracking: null or a Set of paths
  isUpdating,            \* this.isUpdating
  currentlyUpdating,     \* this.currentlyUpdating: the paths in flight
  updateQueue,           \* this.updateQueue
  batchTimeout,          \* this.batchTimeout is not null
  batchUpdateInProgress, \* this.batchUpdateInProgress
  maxBatchSize,          \* this.maxBatchSize
  batchDelayMs,          \* this.batchDelayMs
  batchingEnabled,       \* this.batchingEnabled
  timerArmed,            \* the timer held in this.batchTimeout has still to fire
  zeroTimers,            \* pending setTimeout(..., 0) of _processBatchedUpdates' finally
  todo,                  \* the rest of the running top-level call: a stack of continuations
  log,                   \* what the running (or last) top-level call did: console lines,
                         \* callback invocations with their arguments, writes of the tree
  lastOp,                \* the running (or last) top-level call: its name, and the
                         \* path and value of a setState or the queue a timer found
  threw,                 \* the last top-level call threw to its caller
  nsubs,                 \* subscriptions registered so far (the next subscription id)
  stringRenderer,        \* the StringRenderer instance: its fields
  rendered,              \* the last call of renderToString: its arguments and its result
  domRenderer,           \* the DOMRenderer instance, the elements it made and the
                         \* parent element whose children function it serves
  lastUpdate             \* the last run of that children function: what it found
                         \* and what it returned

vars == <<state, initialState, middleware, subscribers, externalSubscribers, currentTracking,
          isUpdating, currentlyUpdating, updateQueue, batchTimeout,
          batchUpdateInProgress, maxBatchSize, batchDelayMs, batchingEnabled,
          timerArmed, zeroTimers, todo, log, lastOp, threw, nsubs,
          stringRenderer, rendered, domRenderer, lastUpdate>>

\* the variables of the store
storeVars == <<state, initialState, middleware, subscribers, externalSubscribers,
               currentTracking, isUpdating, currentlyUpdating, updateQueue, batchTimeout,
               batchUpdateInProgress, maxBatchSize, batchDelayMs, batchingEnabled,
               timerArmed, zeroTimers, todo, log, lastOp, threw, nsubs>>

\* The store as one record, for the operators that thread it through a call.
Mach ==
  [state |-> state, initialState |-> initialState,
   middleware |-> middleware, subscribers |-> subscribers,
   externalSubscribers |-> externalSubscribers, currentTracking |-> currentTracking,
   isUpdating |-> isUpdating, currentlyUpdating |-> currentlyUpdating,
   updateQueue |-> updateQueue, batchTimeout |-> batchTimeout,
   batchUpdateInProgress |-> batchUpdateInProgress, maxBatchSize |-> maxBatchSize,
   batchDelayMs |-> batchDelayMs, batchingEnabled |-> batchingEnabled,
   timerArmed |-> timerArmed, zeroTimers |-> zeroTimers,
   todo |-> todo, log |-> log, threw |-> threw]

StoreBecomes(M) ==
  /\ state' = M.state
  /\ initialState' = M.initialState
  /\ middleware' = M.middleware
  /\ subscribers' = M.subscribers
  /\ externalSubscribers' = M.externalSubscribers
  /\ currentTracking' = M.currentTracking
  /\ isUpdating' = M.isUpdating
  /\ currentlyUpdating' = M.currentlyUpdating
  /\ updateQueue' = M.updateQueue
  /\ batchTimeout' = M.batchTimeout
  /\ batchUpdateInProgress' = M.batchUpdateInProgress
  /\ maxBatchSize' = M.maxBatchSize
  /\ batchDelayMs' = M.batchDelayMs
  /\ batchingEnabled' = M.batchingEnabled
  /\ timerArmed' = M.timerArmed
  /\ zeroTimers' = M.zeroTimers
  /\ todo' = M.todo
  /\ log' = M.log
  /\ threw' = M.threw

Becomes(M) ==
  /\ StoreBecomes(M)
  /\ UNCHANGED <<stringRenderer, rendered, domRenderer, lastUpdate>>

\* A Set is an object: when a new Set takes the place of currentTracking while
\* a caller still holds the old one (the const of _triggerPathSubscribers, the
\* dependencies of _createReactiveUpdate), the old one receives no path any
\* more.  shadowed lists, oldest first, the Sets that were replaced so since
\* the last Set a caller installed after saving the one before.
NoTracking == [on |-> FALSE, deps |-> <<>>, shadowed |-> <<>>]
NewTracking == [on |-> TRUE, deps |-> <<>>, shadowed |-> <<>>]

\* Set.prototype.add on a Set kept as the sequence of its members in insertion order
SetAdd(seq, x) == IF \E i \in 1..Len(seq) : seq[i] = x THEN seq ELSE Append(seq, x)
SetHas(seq, x) == \E i \in 1..Len(seq) : seq[i] = x
SetDelete(seq, x) == SelectSeq(seq, LAMBDA y : y # x)

\* ------------------------------------------------------------- log entries
EvWarn(msg, path) == [e |-> "warn", msg |-> msg, path |-> path]
EvError(msg) == [e |-> "error", msg |-> msg]
\* the tree was written at path (not something the code prints: a ghost entry)
EvWrite(path, value) == [e |-> "write", path |-> path, value |-> value]
\* _setStateImmediate returned at its deepEquals test (a ghost entry too)
EvSkip(path) == [e |-> "skip", path |-> path]
\* a reactive callback was invoked, as member of the subscriber set of path at
EvInt(cb, at, changed) == [e |-> "int", cb |-> cb, at |-> at, changed |-> changed]
\* an external callback was invoked with (newValue, oldValue, changedPath)
EvExt(sub, subscribedPath, newValue, oldValue, changedPath) ==
  [e |-> "ext", id |-> sub.id, cb |-> sub.cb, hierarchical |-> sub.hierarchical,
   at |-> subscribedPath, newValue |-> newValue, oldValue |-> oldValue,
   changed |-> changedPath]

Logged(M, ev) == [M EXCEPT !.log = Append(@, ev)]

\* ------------------------------------------------ subscriber maps (Map, Set)

\* Map.get(path): the Set at path, empty when the Map has no such key
MapGet(map, path) ==
  LET hits == SelectSeq(map, LAMBDA en : en.path = path)
  IN  IF hits = <<>> THEN <<>> ELSE hits[1].members

MapHas(map, path) == \E i \in 1..Len(map) : map[i].path = path

\* Map.keys(), in insertion order
MapKeys(map) == [i \in 1..Len(map) |-> map[i].path]

\* if (!map.has(path)) map.set(path, new Set()); map.get(path).add(member)
MapAdd(map, path, member) ==
  IF MapHas(map, path)
  THEN [i \in 1..Len(map) |->
          IF map[i].path = path
          THEN [map[i] EXCEPT !.members = SetAdd(@, member)] ELSE map[i]]
  ELSE Append(map, [path |-> path, members |-> <<member>>])

\* subs.delete(member); if (subs.size === 0) map.delete(path)
MapRemove(map, path, member) ==
  SelectSeq([i \in 1..Len(map) |->
               IF map[i].path = path
               THEN [map[i] EXCEPT !.members = SetDelete(@, member)] ELSE map[i]],
            LAMBDA en : en.members # <<>>)

\* subscribeInternal(path, callback)
subscribeInternal(M, path, callback) ==
  [M EXCEPT !.subscribers = MapAdd(@, path, callback)]

\* ------------------------------------------------------- work of a call
\* What is left to do of the running top-level call, first item first:
\*   trigger     _triggerPathSubscribers(at), about to copy the Set at path at
\*   desc        the descendant loop of _notifySubscribers, about to list the keys
\*   extAll      _notifyExternalSubscribers, about to walk the Map
\*   int         one reactive callback of a copied Set, about to be invoked
\*   ext         one external subscription, about to be tested and invoked
\*   finishSet   lines 210-211 of _setStateImmediate
\*   apply       one path group of _processBatchedUpdates
\*   set         one setState(path, value) of reset
\*   finishBatch the finally of _processBatchedUpdates
NoSub == [id |-> 0, cb |-> "", hierarchical |-> FALSE]

Item(k, path) ==
  [k |-> k, path |-> path, at |-> path, cb |-> "", sub |-> NoSub,
   newValue |-> Undefined, oldValue |-> Undefined]

\* parts.slice(0, i).join('.') for i = parts.length - 1 down to 1
AncestorPaths(path) ==
  LET parts == getPathParts(path)
      n == Len(parts)
  IN  [j \in 1..(IF n > 1 THEN n - 1 ELSE 0) |-> JoinDot(SubSeq(parts, 1, n - j))]

\* lines 205-211 of _setStateImmediate: _notifySubscribers (the set at the
\* path, the ancestors, the descendants), _notifyExternalSubscribers, and
\* the reset of the guards
NotifyItems(path, newValue, oldValue) ==
  << Item("trigger", path) >>
  \o [j \in 1..Len(AncestorPaths(path)) |->
        [Item("trigger", path) EXCEPT !.at = AncestorPaths(path)[j]]]
  \o << Item("desc", path),
        [Item("extAll", path) EXCEPT !.newValue = newValue, !.oldValue = oldValue],
        Item("finishSet", path) >>

\* new Set(subs).forEach(callback => ...) of _triggerPathSubscribers
TriggerItems(M, it) ==
  LET copy == MapGet(M.subscribers, it.at)
  IN  [i \in 1..Len(copy) |-> [it EXCEPT !.k = "int", !.cb = copy[i]]]

RECURSIVE Dedup(_, _)
\* new Set([...]) of a sequence: the first occurrence of each member
Dedup(seq, acc) ==
  IF seq = <<>> THEN acc ELSE Dedup(Tail(seq), SetAdd(acc, Head(seq)))

\* the descendant loop of _notifySubscribers: the keys of both Maps that
\* start with path + '.' and are not path
DescItems(M, it) ==
  LET prefix == IF it.path # <<>> THEN it.path \o <<".">> ELSE <<>>
      all == Dedup(MapKeys(M.subscribers) \o MapKeys(M.externalSubscribers), <<>>)
      desc == SelectSeq(all, LAMBDA sp : StartsWith(sp, prefix) /\ sp # it.path)
  IN  [i \in 1..Len(desc) |-> [it EXCEPT !.k = "trigger", !.at = desc[i]]]

RECURSIVE Flatten(_)
Flatten(seqs) == IF seqs = <<>> THEN <<>> ELSE Head(seqs) \o Flatten(Tail(seqs))

\* the two nested forEach of _notifyExternalSubscribers.  No callback of the
\* model adds to or deletes from externalSubscribers, so walking the Map as
\* it is at the start is walking it live.
ExtItems(M, it) ==
  Flatten([i \in 1..Len(M.externalSubscribers) |->
            LET en == M.externalSubscribers[i]
            IN  [j \in 1..Len(en.members) |->
                   [it EXCEPT !.k = "ext", !.at = en.path, !.sub = en.members[j]]]])

\* shouldNotify of _notifyExternalSubscribers
shouldNotify(hierarchical, changedPath, subscribedPath) ==
  IF hierarchical
  THEN changedPath = subscribedPath \/ StartsWith(changedPath, subscribedPath \o <<".">>)
  ELSE changedPath = subscribedPath

\* ------------------------------------------------------------ getState

\* the tracking of getState: this.currentTracking.add(path)
Tracked(M, path) ==
  IF M.currentTracking.on
  THEN [M EXCEPT !.currentTracking.deps = SetAdd(@, path)]
  ELSE M

\* getState(path): the store after the call (a warning, a dependency)
getStateEffect(M, path) ==
  IF ~isValidPath(path) THEN Logged(M, EvWarn("Invalid state path", path))
  ELSE Tracked(M, path)

\* getState(path, defaultValue): the value returned
getState(M, path, defaultValue) ==
  IF ~isValidPath(path) THEN defaultValue ELSE Lookup(M.state, path, defaultValue)

\* ------------------------------------------------------------ setState

\* no reentrancy test: the alternative C6 is tested against
_hasCircularUpdateNever(M, path) == FALSE

_hasCircularUpdate(M, path) == path \in M.currentlyUpdating

\* _setStateImmediate(path, value): the write, and the notification put in
\* front of what is left to do
_setStateImmediate(M, path, value) ==
  LET M1 == getStateEffect(M, path)
      oldValue == getState(M, path, Null)
      finalValue == RunMiddleware(M.middleware, oldValue, value)
      M2 == [M1 EXCEPT !.log = @ \o MiddlewareErrors(M.middleware, oldValue, value)]
  IN  IF deepEquals(oldValue, finalValue) THEN Logged(M2, EvSkip(path))
      ELSE LET M3 == Logged([M2 EXCEPT !.state = WriteTree(@, path, finalValue)],
                            EvWrite(path, finalValue))
           IN  IF ~M3.isUpdating
               THEN [M3 EXCEPT !.isUpdating = TRUE,
                               !.currentlyUpdating = @ \cup {path},
                               !.todo = NotifyItems(path, finalValue, oldValue) \o @]
               ELSE M3

RECURSIVE PathGroups(_, _)
\* pathGroups.set(update.path, update) over the batch: a Map keeps the place
\* of a key's first insertion and the value of its last
PathGroups(batch, groups) ==
  IF batch = <<>> THEN groups
  ELSE LET u == Head(batch)
       IN  PathGroups(Tail(batch),
             IF \E i \in 1..Len(groups) : groups[i].path = u.path
             THEN [i \in 1..Len(groups) |-> IF groups[i].path = u.path THEN u ELSE groups[i]]
             ELSE Append(groups, u))

Min(a, b) == IF a < b THEN a ELSE b

\* _processBatchedUpdates up to its try block; the path groups and the
\* finally are put in front of what is left to do
_processBatchedUpdates(M) ==
  IF M.batchUpdateInProgress \/ M.updateQueue = <<>> THEN M
  ELSE LET batchSize == Min(M.maxBatchSize, Len(M.updateQueue))
           currentBatch == SubSeq(M.updateQueue, 1, batchSize)
           groups == PathGroups(currentBatch, <<>>)
       IN  [M EXCEPT !.batchUpdateInProgress = TRUE,
                     !.batchTimeout = FALSE,
                     !.timerArmed = FALSE,
                     !.updateQueue = SubSeq(@, batchSize + 1, Len(@)),
                     !.todo = [i \in 1..Len(groups) |->
                                 [Item("apply", groups[i].path)
                                    EXCEPT !.newValue = groups[i].value]]
                              \o << Item("finishBatch", <<>>) >> \o @]

\* the finally of _processBatchedUpdates
FinishBatch(M) ==
  [M EXCEPT !.batchUpdateInProgress = FALSE,
            !.zeroTimers = IF M.updateQueue # <<>> THEN @ + 1 ELSE @]

\* a queue that overflows as soon as it holds more than maxBatchSize records:
\* the alternative C25 is tested against
_queueUpdateAtMax(M, path, value) ==
  IF Len(M.updateQueue) + 1 > M.maxBatchSize
  THEN _processBatchedUpdates(
         Logged([M EXCEPT !.updateQueue = Append(@, [path |-> path, value |-> value])],
                EvWarn("Update queue is getting large", path)))
  ELSE IF ~M.batchTimeout
  THEN [M EXCEPT !.updateQueue = Append(@, [path |-> path, value |-> value]),
                 !.batchTimeout = TRUE, !.timerArmed = TRUE]
  ELSE [M EXCEPT !.updateQueue = Append(@, [path |-> path, value |-> value])]

\* _queueUpdate(path, value, context)
_queueUpdate(M, path, value) ==
  LET M1 == [M EXCEPT !.updateQueue = Append(@, [path |-> path, value |-> value])]
  IN  IF Len(M1.updateQueue) > M1.maxBatchSize * 2
      THEN _processBatchedUpdates(
             Logged(M1, EvWarn("Update queue is getting large", path)))
      ELSE IF ~M1.batchTimeout
      THEN [M1 EXCEPT !.batchTimeout = TRUE, !.timerArmed = TRUE]
      ELSE M1

\* setState(path, value)
setState(M, path, value) ==
  IF ~isValidPath(path) THEN Logged(M, EvWarn("Invalid state path", path))
  ELSE IF _hasCircularUpdate(M, path)
  THEN Logged(M, EvWarn("Circular dependency detected", path))
  ELSE IF M.batchingEnabled /\ M.batchDelayMs > 0 THEN _queueUpdate(M, path, value)
  ELSE _setStateImmediate(M, path, value)

\* ------------------------------------------------------------ reset

\* The keys of an object in the order Object.entries lists them: the order
\* in which the literal given to the constructor names them ('a' before 'b').
KeyOrder == <<P_a, P_b>>

\* Object.entries(obj)
ObjectEntries(obj) ==
  LET keys == SelectSeq(KeyOrder, LAMBDA k : k \in DOMAIN obj.f)
  IN  [i \in 1..Len(keys) |-> [path |-> keys[i], value |-> obj.f[keys[i]]]]

RECURSIVE CollectPreserved(_, _, _)
\* preserve.forEach of reset: the store after its getState calls, and the
\* entries of preserved (a value that is null is not kept)
CollectPreserved(M, preserve, preserved) ==
  IF preserve = <<>> THEN [store |-> M, preserved |-> preserved]
  ELSE LET path == Head(preserve)
           value == getState(M, path, Null)
           M1 == getStateEffect(M, path)
           kept == IF value = Null THEN preserved
                   ELSE IF \E i \in 1..Len(preserved) : preserved[i].path = path
                   THEN [i \in 1..Len(preserved) |->
                           IF preserved[i].path = path
                           THEN [path |-> path, value |-> value] ELSE preserved[i]]
                   ELSE Append(preserved, [path |-> path, value |-> value])
       IN  CollectPreserved(M1, Tail(preserve), kept)

\* reset(preserve) up to its first setState: the tree is cleared, and the
\* setState calls for the snapshot and for the preserved values are put in
\* front of what is left to do
reset(M, preserve) ==
  LET c == CollectPreserved(M, preserve, <<>>)
      sets == ObjectEntries(M.initialState) \o c.preserved
  IN  [c.store EXCEPT
         !.state = EmptyObj,
         !.todo = [i \in 1..Len(sets) |->
                     [Item("set", sets[i].path) EXCEPT !.newValue = sets[i].value]] \o @]

\* ------------------------------------------------------------ callbacks
\* A callback is a function of the application.  The model knows four:
\*   "spy"     only records that it ran,
\*   "thrower" throws,
\*   "writeA"  calls setState('a', 2),
\*   "readAB"  calls getState('a.b').
CallbackThrows(cb) == cb = "thrower"

CallbackBody(M, cb) ==
  CASE cb = "writeA" -> setState(M, P_a, Num(2))
    [] cb = "readAB" -> getStateEffect(M, P_ab)
    [] OTHER -> M

RECURSIVE Unwind(_)
\* An exception leaves the frames of the running call: the try of
\* _processBatchedUpdates catches it, and nothing else does.
Unwind(M) ==
  IF M.todo = <<>> THEN [M EXCEPT !.threw = TRUE]
  ELSE IF Head(M.todo).k = "finishBatch"
  THEN Logged(M, EvError("Error processing batched updates"))
  ELSE Unwind([M EXCEPT !.todo = Tail(@)])

RECURSIVE Resubscribe(_, _, _)
\* newTracking.forEach(newPath => ...) of _triggerPathSubscribers
Resubscribe(M, newPaths, callback) ==
  IF newPaths = <<>> THEN M
  ELSE Resubscribe(
         IF ~SetHas(MapGet(M.subscribers, Head(newPaths)), callback)
         THEN subscribeInternal(M, Head(newPaths), callback) ELSE M,
         Tail(newPaths), callback)

\* the body of subscribersCopy.forEach in _triggerPathSubscribers.  oldTracking
\* is a const of the try block: the catch block's read of it is a
\* ReferenceError, which leaves the catch, the forEach and every caller up
\* to a try that encloses them.
InvokeInternal(M, it) ==
  LET oldTracking == M.currentTracking
      M1 == Logged([M EXCEPT !.currentTracking = NewTracking],
                   EvInt(it.cb, it.at, it.path))
  IN  IF CallbackThrows(it.cb)
      THEN Unwind(Logged(M1, EvError("Subscriber error")))
      ELSE LET M2 == CallbackBody(M1, it.cb)
           IN  Resubscribe([M2 EXCEPT !.currentTracking = oldTracking],
                           M2.currentTracking.deps, it.cb)

\* the try of _notifyExternalSubscribers: callback(newValue, oldValue, changedPath)
InvokeExternal(M, it) ==
  LET M1 == Logged(M, EvExt(it.sub, it.at, it.newValue, it.oldValue, it.path))
  IN  IF CallbackThrows(it.sub.cb)
      THEN Logged(M1, EvError("External subscriber error"))
      ELSE CallbackBody(M1, it.sub.cb)

RECURSIVE Settle(_)
\* Runs the call on, up to the next callback it has to invoke or to its end.
Settle(M) ==
  IF M.todo = <<>> THEN M
  ELSE LET it == Head(M.todo)
           rest == Tail(M.todo)
       IN  CASE it.k = "trigger" ->
                  Settle([M EXCEPT !.todo = TriggerItems(M, it) \o rest])
             [] it.k = "desc" ->
                  Settle([M EXCEPT !.todo = DescItems(M, it) \o rest])
             [] it.k = "extAll" ->
                  Settle([M EXCEPT !.todo = ExtItems(M, it) \o rest])
             [] it.k = "ext" /\ ~shouldNotify(it.sub.hierarchical, it.path, it.at) ->
                  Settle([M EXCEPT !.todo = rest])
             [] it.k = "finishSet" ->
                  Settle([M EXCEPT !.currentlyUpdating = @ \ {it.path},
                                   !.isUpdating = FALSE,
                                   !.todo = rest])
             [] it.k = "set" ->
                  Settle(setState([M EXCEPT !.todo = rest], it.path, it.newValue))
             [] it.k = "apply" ->
                  Settle(_setStateImmediate([M EXCEPT !.todo = rest], it.path, it.newValue))
             [] it.k = "finishBatch" ->
                  Settle(FinishBatch([M EXCEPT !.todo = rest]))
             [] OTHER -> M

\* the callback at the head of the work is invoked
Invoke(M) ==
  LET it == Head(M.todo)
      M1 == [M EXCEPT !.todo = Tail(@)]
  IN  IF it.k = "int" THEN InvokeInternal(M1, it) ELSE InvokeExternal(M1, it)

\* ------------------------------------------------- inputs of the model

\* the object {b: 1}
ObjB1 == Obj([k \in {<<"b">>} |-> Num(1)])

\* the values the application stores at 'a' and 'a.b': the numbers
\* 1..MaxVal and the object {b: 1}
SetValues == {Num(n) : n \in 1..MaxVal} \cup {ObjB1}

\* the calls of setState the application makes: at 'a' and 'a.b' any value,
\* and 1 at 'b', at '.' (a path without a segment) and at '..' (invalid)
Writes ==
  ({P_a, P_ab} \X SetValues) \cup {<<P_b, Num(1)>>, <<P_dot, Num(1)>>, <<P_dotdot, Num(1)>>}

\* the calls of subscribe the application makes: <<path, callback, hierarchical>>
ExternalChoices ==
  { <<P_a, "spy", TRUE>>, <<P_a, "spy", FALSE>>, <<P_ab, "spy", TRUE>>,
    <<P_a, "thrower", TRUE>>, <<P_a, "writeA", TRUE>> }

\* the calls of subscribeInternal the renderer makes: <<path, callback>>
InternalChoices ==
  { <<P_a, "spy">>, <<P_ab, "spy">>, <<P_a, "thrower">>, <<P_a, "writeA">>,
    <<P_a, "readAB">> }

\* the trees the store is constructed with: {} and {a: {b: 1}}
InitialTrees == {EmptyObj, Obj([k \in {<<"a">>} |-> ObjB1])}

\* the middleware chains the store is constructed with
MiddlewareChains ==
  {<<>>, <<"cap">>, <<"throw">>, <<"throw", "cap">>, <<"cap", "throw">>, <<"veto">>,
   <<"pass", "throw">>}

Op(op, path, value) == [op |-> op, path |-> path, value |-> value]

\* ------------------------------------------------------------------ actions

Idle == todo = <<>>

\* a top-level call starts with an empty record of what it did
Fresh == [Mach EXCEPT !.log = <<>>, !.threw = FALSE]

\* constructor(initialState, middleware)
New(tree, mws) ==
  [state |-> tree, initialState |-> tree,
   middleware |-> mws, subscribers |-> <<>>,
   externalSubscribers |-> <<>>, currentTracking |-> NoTracking,
   isUpdating |-> FALSE, currentlyUpdating |-> {},
   updateQueue |-> <<>>, batchTimeout |-> FALSE,
   batchUpdateInProgress |-> FALSE, maxBatchSize |-> 50,
   batchDelayMs |-> 0, batchingEnabled |-> TRUE,
   timerArmed |-> FALSE, zeroTimers |-> 0,
   todo |-> <<>>, log |-> <<>>, threw |-> FALSE]

\* configureBatching(options); an option that is 0 or absent is 0 here for
\* maxBatchSize (options.maxBatchSize || this.maxBatchSize), and absent
\* batchDelayMs and enabled are marked by hasDelay and hasEnabled
configureBatching(M, options) ==
  [M EXCEPT !.maxBatchSize = IF options.maxBatchSize # 0 THEN options.maxBatchSize ELSE @,
            !.batchDelayMs = IF options.hasDelay THEN options.batchDelayMs ELSE @,
            !.batchingEnabled = IF options.hasEnabled THEN options.enabled ELSE @]

\* this.maxRenderDepth: 100 in the StringRenderer's constructor, and here the
\* smaller maximum the application assigns to the field
MaxRenderDepth == 3

\* new StringRenderer(juris).  A render threads this record through its calls:
\*   renderDepth, maxRenderDepth, autoDetectAsync, asyncDetected,
\*   currentRenderIsAsync   the fields of the same names
\*   peak     the largest value renderDepth has had (read by the claims only)
\*   waited   an await on a Slow thenable has happened (read by the timeout)
\*   waitedAt the value of renderDepth while the first such await is pending
NewRenderer ==
  [renderDepth |-> 0, maxRenderDepth |-> MaxRenderDepth, autoDetectAsync |-> TRUE,
   asyncDetected |-> FALSE, currentRenderIsAsync |-> FALSE,
   peak |-> 0, waited |-> FALSE, waitedAt |-> 0]

\* the elements the DOM renderer may create
MaxNodes == 3

\* the times the children function runs again after the mount
MaxUpdates == 2

\* the times the application calls render
MaxRenders == 5

\* the calls the application makes of a renderer bound to the store
MaxCalls == 4

\* this.recyclePoolSize, as the constructor sets it
recyclePoolSize == 100

\* the second parent element the application mounts (the first is 0)
SecondParent == -3

\* the DOMRenderer after its constructor, and no parent mounted yet:
\*   renderMode, elementCache (key -> element), recyclePool (tag -> elements),
\*   nodes             every element created so far
\*   childNodes        the child nodes of the mounted parent, in document order
\*   mounted           _handleChildrenOptimized has run for the parent
\*   childElements, lastChildrenState   the variables of its closure
\*   failureCount, recyclePoolSize   the fields of the same names
\*   parent, parentNode   the mounted parent and the parent nodes of the
\*                     elements that are not its children
\*   subscriptions     the WeakMap element -> {subscriptions, eventListeners}
\*   tornDown          the elements whose entry cleanup has found and deleted,
\*                     in the order of the calls (read by the claims only)
\*   closures          the updateText and updateChildren closures made so far:
\*                     name -> {element, kind, fn, isInitialized, last}
\*   called            the unsubscribe handles cleanup has called, in order
\*                     (read by the claims only)
\*   cleanedUp         the elements cleanup has been called on (read by the
\*                     claims only)
\*   asyncCache        this.asyncCache: cache key -> {props, timestamp}
\*   thenables         the thenables the application has passed as properties:
\*                     what each settles to, and whether it has settled
\*   pending           the Promise.all(...).then callbacks of _resolveAsyncProps
\*                     that have not run: {element, asyncProps}
\*   built             element -> the thenables it was built with (read by
\*                     the claims only)
\*   now               Date.now(), in milliseconds since the construction
\*   other             a second parent element with a children function, made
\*                     by the same renderer: the element, the variables of its
\*                     updateChildren closure, and its child nodes in the
\*                     order they had when the renderer last worked on it
\*                     (those of them that are still its children are in the
\*                     map parentNode)
NewDomRenderer ==
  [renderMode |-> <<"f", "i", "n", "e", "-", "g", "r", "a", "i", "n", "e", "d">>, elementCache |-> <<>>, recyclePool |-> <<>>,
   nodes |-> <<>>, childNodes |-> <<>>, mounted |-> FALSE,
   childElements |-> <<>>, lastChildrenState |-> Null, failureCount |-> 0,
   parent |-> 0, parentNode |-> <<>>,
   recyclePoolSize |-> recyclePoolSize, subscriptions |-> <<>>, tornDown |-> <<>>,
   closures |-> <<>>, called |-> <<>>, cleanedUp |-> {},
   asyncCache |-> <<>>, thenables |-> <<>>, pending |-> <<>>, built |-> <<>>, now |-> 0,
   other |-> [parent |-> SecondParent, childNodes |-> <<>>, mounted |-> FALSE,
              childElements |-> <<>>, lastChildrenState |-> Null]]

\* no children function has run again yet
NotUpdated == [op |-> "none", n |-> 0]

\* no call of renderToString yet
NotRendered == [op |-> "none"]

\* the store M is the one the application starts with
Starts(M) ==
  /\ state = M.state
  /\ initialState = M.initialState
  /\ middleware = M.middleware
  /\ subscribers = M.subscribers
  /\ externalSubscribers = M.externalSubscribers
  /\ currentTracking = M.currentTracking
  /\ isUpdating = M.isUpdating
  /\ currentlyUpdating = M.currentlyUpdating
  /\ updateQueue = M.updateQueue
  /\ batchTimeout = M.batchTimeout
  /\ batchUpdateInProgress = M.batchUpdateInProgress
  /\ maxBatchSize = M.maxBatchSize
  /\ batchDelayMs = M.batchDelayMs
  /\ batchingEnabled = M.batchingEnabled
  /\ timerArmed = M.timerArmed
  /\ zeroTimers = M.zeroTimers
  /\ todo = M.todo
  /\ log = M.log
  /\ threw = M.threw
  /\ lastOp = Op("constructor", <<>>, Undefined)
  /\ nsubs = 0
  /\ stringRenderer = NewRenderer
  /\ rendered = NotRendered
  /\ domRenderer = NewDomRenderer
  /\ lastUpdate = NotUpdated

\* the step leaves at most MaxQueue updates queued and MaxTimers timers of
\* delay 0 pending
WithinBounds == Len(updateQueue') <= MaxQueue /\ zeroTimers' <= MaxTimers

\* the application calls setState(path, value)
SetState(path, value) ==
  /\ Idle
  /\ Becomes(Settle(setState(Fresh, path, value)))
  /\ WithinBounds
  /\ lastOp' = Op("setState", path, value)
  /\ nsubs' = nsubs

\* the running call invokes its next subscriber callback
Step ==
  /\ ~Idle
  /\ Becomes(Settle(Invoke(Mach)))
  /\ WithinBounds
  /\ UNCHANGED <<lastOp, nsubs>>

\* the application calls subscribe(path, callback, hierarchical)
Subscribe(path, callback, hierarchical) ==
  /\ Idle
  /\ nsubs < MaxSubs
  /\ Becomes([Fresh EXCEPT !.externalSubscribers =
                MapAdd(@, path, [id |-> nsubs + 1, cb |-> callback,
                                 hierarchical |-> hierarchical])])
  /\ lastOp' = Op("subscribe", path, Undefined)
  /\ nsubs' = nsubs + 1

\* the application calls the function subscribe returned for subscription id
Unsubscribe(path, id) ==
  /\ Idle
  /\ \E i \in 1..Len(MapGet(externalSubscribers, path)) :
        /\ MapGet(externalSubscribers, path)[i].id = id
        /\ Becomes([Fresh EXCEPT !.externalSubscribers =
                      MapRemove(@, path, MapGet(externalSubscribers, path)[i])])
  /\ lastOp' = Op("unsubscribe", path, Undefined)
  /\ nsubs' = nsubs

\* the renderer calls subscribeInternal(path, callback)
SubscribeInternal(path, callback) ==
  /\ Idle
  /\ nsubs < MaxSubs
  /\ Becomes(subscribeInternal(Fresh, path, callback))
  /\ lastOp' = Op("subscribeInternal", path, Undefined)
  /\ nsubs' = nsubs + 1

\* the renderer calls the function subscribeInternal returned
UnsubscribeInternal(path, callback) ==
  /\ Idle
  /\ SetHas(MapGet(subscribers, path), callback)
  /\ Becomes([Fresh EXCEPT !.subscribers = MapRemove(@, path, callback)])
  /\ lastOp' = Op("unsubscribeInternal", path, Undefined)
  /\ nsubs' = nsubs

\* the application calls getState(path, defaultValue)
GetState(path, defaultValue) ==
  /\ Idle
  /\ Becomes(getStateEffect(Fresh, path))
  /\ lastOp' = Op("getState", path,
                  [default |-> defaultValue,
                   result |-> getState(Mach, path, defaultValue)])
  /\ nsubs' = nsubs

\* the application calls startTracking()
StartTracking ==
  /\ Idle
  /\ Becomes([Fresh EXCEPT !.currentTracking = NewTracking])
  /\ lastOp' = Op("startTracking", <<>>, Undefined)
  /\ nsubs' = nsubs

\* the application calls endTracking()
EndTracking ==
  /\ Idle
  /\ Becomes([Fresh EXCEPT !.currentTracking = NoTracking])
  /\ lastOp' = Op("endTracking", <<>>, Undefined)
  /\ nsubs' = nsubs

\* the application calls reset(preserve)
Reset(preserve) ==
  /\ Idle
  /\ Becomes(Settle(reset(Fresh, preserve)))
  /\ WithinBounds
  /\ lastOp' = Op("reset", <<>>, [preserve |-> preserve, before |-> state])
  /\ nsubs' = nsubs

\* the timer of _queueUpdate fires
TimerFire ==
  /\ Idle
  /\ timerArmed
  /\ Becomes(Settle(_processBatchedUpdates([Fresh EXCEPT !.timerArmed = FALSE])))
  /\ WithinBounds
  /\ lastOp' = Op("timer", <<>>, updateQueue)
  /\ nsubs' = nsubs

\* a setTimeout(..., 0) of _processBatchedUpdates' finally fires
ZeroTimerFire ==
  /\ Idle
  /\ zeroTimers > 0
  /\ Becomes(Settle(_processBatchedUpdates([Fresh EXCEPT !.zeroTimers = @ - 1])))
  /\ WithinBounds
  /\ lastOp' = Op("timer0", <<>>, updateQueue)
  /\ nsubs' = nsubs

\* ------------------------------------------------------------ the store,
\* constructed with no middleware and left with its default batchDelayMs of
\* 0: every setState is applied at once

Init == \E tree \in InitialTrees : Starts(New(tree, <<>>))

Next ==
  \/ \E w \in Writes : SetState(w[1], w[2])
  \/ Step
  \/ \E c \in ExternalChoices : Subscribe(c[1], c[2], c[3])
  \/ \E c \in ExternalChoices, id \in 1..MaxSubs : Unsubscribe(c[1], id)
  \/ \E c \in InternalChoices : SubscribeInternal(c[1], c[2])
  \/ \E c \in InternalChoices : UnsubscribeInternal(c[1], c[2])

Spec == Init /\ [][Next]_vars

\* ------------------------------------------------------------ the store
\* with reactive subscribers only

NextReactive ==
  \/ \E w \in Writes : SetState(w[1], w[2])
  \/ Step
  \/ \E c \in InternalChoices : SubscribeInternal(c[1], c[2])
  \/ \E c \in InternalChoices : UnsubscribeInternal(c[1], c[2])

SpecReactive == Init /\ [][NextReactive]_vars

\* ------------------------------------------------------------ the store
\* constructed with a middleware chain

MwExternalChoices == { <<P_a, "spy", TRUE>>, <<P_a, "writeA", TRUE>> }

MwInternalChoices == { <<P_ab, "spy">>, <<P_a, "writeA">> }

InitMw == \E tree \in InitialTrees, mws \in MiddlewareChains : Starts(New(tree, mws))

NextMw ==
  \/ \E w \in Writes : SetState(w[1], w[2])
  \/ Step
  \/ \E c \in MwExternalChoices : Subscribe(c[1], c[2], c[3])
  \/ \E c \in MwInternalChoices : SubscribeInternal(c[1], c[2])

SpecMw == InitMw /\ [][NextMw]_vars

\* ------------------------------------------------------------ the store
\* after configureBatching({batchDelayMs: 10, maxBatchSize: 2}): every
\* setState is queued and a timer applies the queue

BatchOptions ==
  { [maxBatchSize |-> 2, hasDelay |-> TRUE, batchDelayMs |-> 10,
     hasEnabled |-> FALSE, enabled |-> TRUE] }

BatchWrites == ({P_a} \X SetValues) \cup {<<P_ab, Num(1)>>}

BatchExternalChoices == { <<P_a, "spy", TRUE>>, <<P_ab, "spy", FALSE>> }

BatchInternalChoices == { <<P_a, "thrower">>, <<P_a, "writeA">> }

InitBatch ==
  \E tree \in InitialTrees, options \in BatchOptions :
    Starts(configureBatching(New(tree, <<>>), options))

NextBatch ==
  \/ \E w \in BatchWrites : SetState(w[1], w[2])
  \/ Step
  \/ TimerFire
  \/ ZeroTimerFire
  \/ \E c \in BatchExternalChoices : Subscribe(c[1], c[2], c[3])
  \/ \E c \in BatchInternalChoices : SubscribeInternal(c[1], c[2])

SpecBatch == InitBatch /\ [][NextBatch]_vars

\* ------------------------------------------------------------ the store
\* called with paths of every kind, batching left as constructed or
\* configured, getState called inside and outside of a tracking

PathChoices == {P_a, P_empty, P_blank, P_dotdot, P_escape, NotAString}

PathWrites == (PathChoices \X {Num(1)}) \cup {<<P_a, Num(2)>>}

PathExternalChoices == { <<P_a, "spy", TRUE>> }

InitPaths == Init \/ InitBatch

NextPaths ==
  \/ \E w \in PathWrites : SetState(w[1], w[2])
  \/ Step
  \/ \E c \in PathExternalChoices : Subscribe(c[1], c[2], c[3])
  \/ \E path \in PathChoices, defaultValue \in {Null, Num(1)} : GetState(path, defaultValue)
  \/ StartTracking
  \/ EndTracking
  \/ TimerFire
  \/ ZeroTimerFire

SpecPaths == InitPaths /\ [][NextPaths]_vars

\* ------------------------------------------------------------ the store
\* constructed with a snapshot of one or two keys, batching left as it is
\* or configured, written and reset

ResetTrees ==
  { Obj([k \in {P_a} |-> ObjB1]), Obj([k \in {P_a, P_b} |-> Num(1)]) }

ResetWrites == { <<P_a, Num(2)>>, <<P_a, Null>>, <<P_b, Num(2)>> }

PreserveChoices == { <<>>, <<P_a>> }

ResetInternalChoices == { <<P_a, "thrower">> }

InitReset ==
  \E tree \in ResetTrees :
    \/ Starts(New(tree, <<>>))
    \/ \E options \in BatchOptions : Starts(configureBatching(New(tree, <<>>), options))

NextReset ==
  \/ \E w \in ResetWrites : SetState(w[1], w[2])
  \/ Step
  \/ \E preserve \in PreserveChoices : Reset(preserve)
  \/ TimerFire
  \/ ZeroTimerFire
  \/ \E c \in ResetInternalChoices : SubscribeInternal(c[1], c[2])

SpecReset == InitReset /\ [][NextReset]_vars

\* ------------------------------------------------------------ the store
\* after configureBatching({batchDelayMs: 10, maxBatchSize: 1}): the queue
\* grows past maxBatchSize and past twice maxBatchSize

OverflowOptions ==
  { [maxBatchSize |-> 1, hasDelay |-> TRUE, batchDelayMs |-> 10,
     hasEnabled |-> FALSE, enabled |-> TRUE] }

OverflowInternalChoices == { <<P_a, "spy">>, <<P_a, "writeA">> }

InitOverflow ==
  \E tree \in InitialTrees, options \in OverflowOptions :
    Starts(configureBatching(New(tree, <<>>), options))

NextOverflow ==
  \/ \E w \in BatchWrites : SetState(w[1], w[2])
  \/ Step
  \/ TimerFire
  \/ ZeroTimerFire
  \/ \E c \in OverflowInternalChoices : SubscribeInternal(c[1], c[2])

SpecOverflow == InitOverflow /\ [][NextOverflow]_vars

\* ------------------------------------------------------------ a queue
\* that drains

\* the tree the calls of setState the application has made so far would have
\* left had each been applied when it was made (read by the claims only)
Expected == IF lastUpdate.op = "setState" THEN lastUpdate.expected ELSE initialState

\* the application calls setState(path, value) of a store that batches
SetStateDrain(path, value) ==
  /\ Idle
  /\ StoreBecomes(Settle(setState(Fresh, path, value)))
  /\ WithinBounds
  /\ lastOp' = Op("setState", path, value)
  /\ nsubs' = nsubs
  /\ lastUpdate' =
       [op |-> "setState", n |-> 0,
        expected |-> IF isValidPath(path) /\ ~_hasCircularUpdate(Mach, path)
                     THEN WriteTree(Expected, path, value) ELSE Expected]
  /\ UNCHANGED <<stringRenderer, rendered, domRenderer>>

DrainOptions ==
  { [maxBatchSize |-> size, hasDelay |-> TRUE, batchDelayMs |-> 10,
     hasEnabled |-> FALSE, enabled |-> TRUE] : size \in {2, 3} }

\* the calls of setState the application makes: {b: 1} and 1 at 'a', 1 and 2
\* at 'a.b', 1 at 'b'
DrainWrites ==
  { <<P_a, ObjB1>>, <<P_a, Num(1)>>, <<P_ab, Num(1)>>, <<P_ab, Num(2)>>, <<P_b, Num(1)>> }

DrainInternalChoices == { <<P_a, "spy">>, <<P_b, "spy">> }

InitDrain ==
  \E tree \in InitialTrees, options \in DrainOptions :
    Starts(configureBatching(New(tree, <<>>), options))

NextDrain ==
  \/ \E w \in DrainWrites : SetStateDrain(w[1], w[2])
  \/ Step
  \/ TimerFire
  \/ ZeroTimerFire
  \/ \E c \in DrainInternalChoices : SubscribeInternal(c[1], c[2])

SpecDrain == InitDrain /\ [][NextDrain]_vars

\* ------------------------------------------------------------ the frame of
\* a write: a store whose tree holds arrays and strings too

P_ac == <<"a", ".", "c">>
P_abc == <<"a", ".", "b", ".", "c">>
P_a0 == <<"a", ".", "0">>
P_a1 == <<"a", ".", "1">>
P_alength == <<"a", ".", "l", "e", "n", "g", "t", "h">>

\* {b: 1, c: 2}
ObjB1C2 == Obj([k \in {<<"b">>, <<"c">>} |-> IF k = <<"b">> THEN Num(1) ELSE Num(2)])

\* the trees the store is constructed with: {}, {a: 1}, {a: {b: 1, c: 2}},
\* {a: [1]} and {a: 'hi'}
FrameTrees ==
  { EmptyObj,
    Obj([k \in {P_a} |-> Num(1)]),
    Obj([k \in {P_a} |-> ObjB1C2]),
    Obj([k \in {P_a} |-> [t |-> "arr", items |-> <<Num(1)>>]]),
    Obj([k \in {P_a} |-> [t |-> "str", s |-> <<"h", "i">>]]) }

\* the calls of setState the application makes
FrameWrites == {P_a, P_b, P_ab, P_ac, P_abc, P_a1} \X {Num(1), Num(2), ObjB1}

\* the paths the application reads
FramePaths == {P_a, P_b, P_ab, P_ac, P_abc, P_a0, P_a1, P_alength}

InitFrame == \E tree \in FrameTrees : Starts(New(tree, <<>>))

NextFrame == \E w \in FrameWrites : SetState(w[1], w[2])

SpecFrame == InitFrame /\ [][NextFrame]_vars


\* ==================================================== the string renderer
\* class StringRenderer of src/StringRendererComponent.js.  A JavaScript
\* string is the sequence of its characters, so that escaping, trimming and
\* substring tests are done on characters as the code does them.

\* ------------------------------------------------- the values of a view
\* Num, Null and Undefined are the values of the store.  The others:
\*   Str(s)      a string
\*   Bool(b)     true or false
\*   Arr(items)  an array
\*   Rec(es)     a plain object: its entries [k, v] in insertion order
\*   Fn(v)       a function that returns v
\*   FnThrows    a function that throws new Error('x')
\*   Resolved(v) a thenable that resolves to v
\*   Rejected    a thenable that rejects with new Error('x')
\*   Slow(v)     a thenable that resolves to v, before or after a timeout
\*   Bare        Object.create(null): an object that String() cannot convert
Str(s) == [t |-> "str", s |-> s]
Bool(b) == [t |-> "bool", b |-> b]
Arr(items) == [t |-> "arr", items |-> items]
Rec(entries) == [t |-> "rec", entries |-> entries]
Fn(v) == [t |-> "fn", throws |-> FALSE, ret |-> v]
FnThrows == [t |-> "fn", throws |-> TRUE, ret |-> Undefined]
Resolved(v) == [t |-> "then", fate |-> "resolved", v |-> v]
Rejected == [t |-> "then", fate |-> "rejected", v |-> Undefined]
Slow(v) == [t |-> "then", fate |-> "slow", v |-> v]
Bare == [t |-> "bare"]

\* the message of every error the functions and thenables of the model raise
ErrorMessage == <<"x">>

\* the message of the TypeError of String(Object.create(null))
ConvertMessage == <<"C", "a", "n", "n", "o", "t", " ", "c", "o", "n", "v", "e", "r", "t", " ", "o", "b", "j", "e", "c", "t", " ", "t", "o", " ", "p", "r", "i", "m", "i", "t", "i", "v", "e", " ", "v", "a", "l", "u", "e">>

RECURSIVE CanString(_)
\* String(value) and `${value}` return: they throw for an object that has
\* neither toString nor valueOf, and for an array that holds one
CanString(v) ==
  /\ v.t # "bare"
  /\ v.t = "arr" => \A i \in 1..Len(v.items) : CanString(v.items[i])

\* !value
Falsy(v) ==
  \/ v \in {Null, Undefined}
  \/ v.t = "bool" /\ ~v.b
  \/ v.t = "num" /\ v.n = 0
  \/ v.t = "str" /\ v.s = <<>>

\* typeof value
JsTypeOf(v) ==
  CASE v.t = "str" -> "string"
    [] v.t = "num" -> "number"
    [] v.t = "bool" -> "boolean"
    [] v.t = "undefined" -> "undefined"
    [] v.t = "fn" -> "function"
    [] OTHER -> "object"

\* value && typeof value.then === 'function'
IsThenable(v) == v.t = "then"

\* the decimal digits of the numbers of the model
Digits(n) == <<<<"0">>, <<"1">>, <<"2">>, <<"3">>, <<"4">>, <<"5">>, <<"6">>, <<"7">>, <<"8">>, <<"9">>>>[n + 1]

RECURSIVE JoinWith(_, _)
\* parts.join(sep)
JoinWith(parts, sep) ==
  IF parts = <<>> THEN <<>>
  ELSE IF Len(parts) = 1 THEN parts[1]
  ELSE parts[1] \o sep \o JoinWith(Tail(parts), sep)

RECURSIVE JsString(_)
\* String(value)
JsString(v) ==
  CASE v.t = "str" -> v.s
    [] v.t = "num" -> Digits(v.n)
    [] v.t = "bool" -> IF v.b THEN <<"t", "r", "u", "e">> ELSE <<"f", "a", "l", "s", "e">>
    [] v.t = "null" -> <<"n", "u", "l", "l">>
    [] v.t = "undefined" -> <<"u", "n", "d", "e", "f", "i", "n", "e", "d">>
    [] v.t = "arr" ->
         JoinWith([i \in 1..Len(v.items) |->
                     IF v.items[i] \in {Null, Undefined} THEN <<>>
                     ELSE JsString(v.items[i])], <<",">>)
    [] v.t = "then" -> <<"[", "o", "b", "j", "e", "c", "t", " ", "P", "r", "o", "m", "i", "s", "e", "]">>
    [] OTHER -> <<"[", "o", "b", "j", "e", "c", "t", " ", "O", "b", "j", "e", "c", "t", "]">>

\* the entry of key in a plain object: undefined when it has none
Entry(obj, key) ==
  IF obj.t = "rec" /\ \E i \in 1..Len(obj.entries) : obj.entries[i].k = key
  THEN (CHOOSE e \in {obj.entries[i] : i \in 1..Len(obj.entries)} : e.k = key).v
  ELSE Undefined

\* Object.keys(value)
ObjectKeys(obj) ==
  IF obj.t = "rec" THEN [i \in 1..Len(obj.entries) |-> obj.entries[i].k] ELSE <<>>

\* ------------------------------------------------------------- characters

UpperCase == <<"A", "B", "C", "D", "E", "F", "G", "H", "I", "J", "K", "L", "M", "N", "O", "P", "Q", "R", "S", "T", "U", "V", "W", "X", "Y", "Z">>

LowerCase == <<"a", "b", "c", "d", "e", "f", "g", "h", "i", "j", "k", "l", "m", "n", "o", "p", "q", "r", "s", "t", "u", "v", "w", "x", "y", "z">>

IsUpper(ch) == \E i \in 1..Len(UpperCase) : UpperCase[i] = ch

IsLower(ch) == \E i \in 1..Len(LowerCase) : LowerCase[i] = ch

LowerOf(ch) ==
  IF IsUpper(ch) THEN LowerCase[CHOOSE i \in 1..Len(UpperCase) : UpperCase[i] = ch] ELSE ch

\* str.toLowerCase()
ToLowerCase(s) == [i \in 1..Len(s) |-> LowerOf(s[i])]

IsLetter(ch) == IsUpper(ch) \/ IsLower(ch)

IsDigit(ch) == ch \in {"0", "1", "2", "3", "4", "5", "6", "7", "8", "9"}

RECURSIVE ReplaceAll(_, _, _)
\* str.replace(/ch/g, by) for a single character ch
ReplaceAll(s, ch, by) ==
  IF s = <<>> THEN <<>>
  ELSE (IF Head(s) = ch THEN by ELSE <<Head(s)>>) \o ReplaceAll(Tail(s), ch, by)

\* an escaping that replaces & last: the alternative C18 is tested against
_escapeHtmlAmpersandLast(str) ==
  ReplaceAll(ReplaceAll(ReplaceAll(ReplaceAll(ReplaceAll(str,
    "<", <<"&", "l", "t", ";">>), ">", <<"&", "g", "t", ";">>), "\"", <<"&", "q", "u", "o", "t", ";">>), "'", <<"&", "#", "3", "9", ";">>), "&", <<"&", "a", "m", "p", ";">>)

\* _escapeHtml(str) for a string str: five replace calls, & first
_escapeHtml(str) ==
  ReplaceAll(ReplaceAll(ReplaceAll(ReplaceAll(ReplaceAll(str,
    "&", <<"&", "a", "m", "p", ";">>), "<", <<"&", "l", "t", ";">>), ">", <<"&", "g", "t", ";">>), "\"", <<"&", "q", "u", "o", "t", ";">>), "'", <<"&", "#", "3", "9", ";">>)

\* _escapeAttributeValue(value): String(value), then & " ' < > in that order
_escapeAttributeValue(value) ==
  IF value \in {Null, Undefined} THEN <<>>
  ELSE ReplaceAll(ReplaceAll(ReplaceAll(ReplaceAll(ReplaceAll(JsString(value),
         "&", <<"&", "a", "m", "p", ";">>), "\"", <<"&", "q", "u", "o", "t", ";">>), "'", <<"&", "#", "3", "9", ";">>), "<", <<"&", "l", "t", ";">>), ">", <<"&", "g", "t", ";">>)


\* ------------------------------------------------------------- attributes

\* this.asyncPlaceholder
asyncPlaceholder == <<"<", "!", "-", "-", " ", "L", "o", "a", "d", "i", "n", "g", ".", ".", ".", " ", "-", "-", ">">>

\* this.booleanAttributes
booleanAttributes ==
  { <<"a", "u", "t", "o", "f", "o", "c", "u", "s">>, <<"a", "u", "t", "o", "p", "l", "a", "y">>, <<"a", "s", "y", "n", "c">>, <<"c", "h", "e", "c", "k", "e", "d">>, <<"c", "o", "n", "t", "r", "o", "l", "s">>, <<"d", "e", "f", "e", "r">>,
    <<"d", "i", "s", "a", "b", "l", "e", "d">>, <<"h", "i", "d", "d", "e", "n">>, <<"l", "o", "o", "p">>, <<"m", "u", "l", "t", "i", "p", "l", "e">>, <<"m", "u", "t", "e", "d">>, <<"o", "p", "e", "n">>,
    <<"r", "e", "a", "d", "o", "n", "l", "y">>, <<"r", "e", "q", "u", "i", "r", "e", "d">>, <<"r", "e", "v", "e", "r", "s", "e", "d">>, <<"s", "e", "l", "e", "c", "t", "e", "d">>, <<"d", "e", "f", "a", "u", "l", "t">> }

\* this.skipAttributes
skipAttributes == { <<"c", "h", "i", "l", "d", "r", "e", "n">>, <<"t", "e", "x", "t">>, <<"s", "t", "y", "l", "e">>, <<"k", "e", "y">> }

\* this.eventHandlerPattern.test(key): /^on[a-z]/i
eventHandlerPattern(key) ==
  Len(key) >= 3 /\ ToLowerCase(SubSeq(key, 1, 2)) = <<"o", "n">> /\ IsLetter(key[3])

_shouldSkipAttribute(key) ==
  \/ key \in skipAttributes
  \/ eventHandlerPattern(key)
  \/ key = <<"s", "t", "y", "l", "e">>
  \/ ToLowerCase(key) = <<"s", "t", "y", "l", "e">>

_isVoidElement(tagName) ==
  ToLowerCase(tagName) \in
    { <<"a", "r", "e", "a">>, <<"b", "a", "s", "e">>, <<"b", "r">>, <<"c", "o", "l">>, <<"e", "m", "b", "e", "d">>, <<"h", "r">>, <<"i", "m", "g">>,
      <<"i", "n", "p", "u", "t">>, <<"l", "i", "n", "k">>, <<"m", "e", "t", "a">>, <<"p", "a", "r", "a", "m">>, <<"s", "o", "u", "r", "c", "e">>, <<"t", "r", "a", "c", "k">>, <<"w", "b", "r">> }

RECURSIVE _camelToKebab(_)
\* str.replace(/[A-Z]/g, letter => '-' + letter.toLowerCase())
_camelToKebab(str) ==
  IF str = <<>> THEN <<>>
  ELSE (IF IsUpper(Head(str)) THEN <<"-", LowerOf(Head(str))>> ELSE <<Head(str)>>)
       \o _camelToKebab(Tail(str))

_processClassName(value) ==
  IF value.t = "str" THEN Trim(value.s)
  ELSE IF value.t = "arr" THEN
    LET strings == SelectSeq(value.items, LAMBDA cls : ~Falsy(cls) /\ cls.t = "str")
        trimmed == [i \in 1..Len(strings) |-> Trim(strings[i].s)]
    IN  JoinWith(SelectSeq(trimmed, LAMBDA cls : Len(cls) > 0), <<" ">>)
  ELSE IF value.t \in {"rec", "then"} THEN
    LET kept == SelectSeq(IF value.t = "rec" THEN value.entries ELSE <<>>,
                          LAMBDA e : ~Falsy(e.v) /\ e.k # <<>>)
        trimmed == [i \in 1..Len(kept) |-> Trim(kept[i].k)]
    IN  JoinWith(SelectSeq(trimmed, LAMBDA cls : Len(cls) > 0), <<" ">>)
  ELSE <<>>

RECURSIVE JsonStringify(_)
\* JSON.stringify(value) of an object or an array, for strings that need no
\* escape other than that of the double quote
JsonStringify(v) ==
  CASE v.t = "str" -> <<"\"">> \o ReplaceAll(v.s, "\"", <<"\\", "\"">>) \o <<"\"">>
    [] v.t \in {"num", "bool", "null"} -> JsString(v)
    [] v.t = "arr" ->
         <<"[">> \o JoinWith([i \in 1..Len(v.items) |->
                    IF v.items[i].t \in {"undefined", "fn"} THEN <<"n", "u", "l", "l">>
                    ELSE JsonStringify(v.items[i])], <<",">>) \o <<"]">>
    [] v.t = "rec" ->
         LET kept == SelectSeq(v.entries, LAMBDA e : e.v.t \notin {"undefined", "fn"})
         IN  <<"{">> \o JoinWith([i \in 1..Len(kept) |->
                    <<"\"">> \o kept[i].k \o <<"\"", ":">> \o JsonStringify(kept[i].v)],
                    <<",">>) \o <<"}">>
    [] OTHER -> <<"{", "}">>

\* an object that holds a reference to itself
Cyclic == [t |-> "cyclic"]

RECURSIVE JsonStringifyThrows(_)
\* JSON.stringify(value) throws a TypeError: the value holds a cycle
JsonStringifyThrows(v) ==
  \/ v.t = "cyclic"
  \/ v.t = "arr" /\ \E i \in 1..Len(v.items) : JsonStringifyThrows(v.items[i])
  \/ v.t = "rec" /\ \E i \in 1..Len(v.entries) : JsonStringifyThrows(v.entries[i].v)

RECURSIVE LeadingDigits(_)
LeadingDigits(s) ==
  IF s # <<>> /\ IsDigit(Head(s)) THEN <<Head(s)>> \o LeadingDigits(Tail(s)) ELSE <<>>

RECURSIVE StripZeros(_)
StripZeros(s) == IF Len(s) > 1 /\ Head(s) = "0" THEN StripZeros(Tail(s)) ELSE s

\* String(parseInt(value, 10)) for an unsigned value; <<>> stands for NaN
ParseInt(value) == StripZeros(LeadingDigits(TrimLeft(JsString(value))))

\* name="escaped value", with the leading blank
Attribute(name, value) ==
  <<" ">> \o name \o <<"=", "\"">> \o _escapeAttributeValue(value) \o <<"\"">>

\* the branch of _renderAttribute for the names of this.booleanAttributes
_renderBoolean(name, value) ==
  IF \/ value = Bool(TRUE)
     \/ value = Str(<<>>)
     \/ value = Str(name)
     \/ value = Str(ToLowerCase(name))
  THEN <<" ">> \o name
  ELSE IF value = Bool(FALSE) THEN <<>>
  ELSE Attribute(name, value)

_renderAttribute(name, value0) ==
  LET lowerName == ToLowerCase(name)
      isObject == JsTypeOf(value0) = "object" /\ value0 # Null
      value == IF isObject THEN Str(JsonStringify(value0)) ELSE value0
  IN  IF value0 \in {Null, Undefined} THEN <<>>
      ELSE IF lowerName = <<"s", "t", "y", "l", "e">> THEN <<>>
      ELSE IF isObject /\ ~StartsWith(lowerName, <<"d", "a", "t", "a", "-">>) THEN <<>>
      ELSE IF lowerName \in booleanAttributes THEN _renderBoolean(name, value)
      ELSE IF StartsWith(lowerName, <<"d", "a", "t", "a", "-">>) \/ StartsWith(lowerName, <<"a", "r", "i", "a", "-">>)
        THEN Attribute(name, value)
      ELSE IF lowerName \in { <<"c", "l", "a", "s", "s">>, <<"c", "l", "a", "s", "s", "n", "a", "m", "e">> } THEN
        LET className == _processClassName(value)
        IN  IF className # <<>> THEN Attribute(<<"c", "l", "a", "s", "s">>, Str(className)) ELSE <<>>
      ELSE IF lowerName \in { <<"f", "o", "r">>, <<"h", "t", "m", "l", "f", "o", "r">> } THEN Attribute(<<"f", "o", "r">>, value)
      ELSE IF lowerName = <<"t", "a", "b", "i", "n", "d", "e", "x">> THEN
        IF ParseInt(value) = <<>> THEN <<>>
        ELSE <<" ", "t", "a", "b", "i", "n", "d", "e", "x", "=">> \o <<"\"">> \o ParseInt(value) \o <<"\"">>
      ELSE Attribute(name, value)


\* ------------------------------------------------- the registered components
\* juris.componentManager.components: the component functions of the model,
\* each a function value (what it returns, or that it throws).
SpanOk == Rec(<<[k |-> <<"s", "p", "a", "n">>, v |-> Rec(<<[k |-> <<"t", "e", "x", "t">>, v |-> Str(<<"o", "k">>)]>>)]>>)

components ==
  [n \in { <<"C", "a", "r", "d">>, <<"L", "a", "z", "y">>, <<"E", "a", "g", "e", "r">>, <<"B", "o", "o", "m">>, <<"L", "o", "o", "p">>, <<"F", "e", "t", "c", "h">>, <<"F", "a", "i", "l", "s">>, <<"L", "a", "t", "e">>, <<"O", "d", "d">> } |->
     CASE n = <<"C", "a", "r", "d">> -> Fn(SpanOk)
       [] n = <<"L", "a", "z", "y">> -> Fn(Rec(<<[k |-> <<"r", "e", "n", "d", "e", "r">>, v |-> Fn(Resolved(SpanOk))]>>))
       [] n = <<"E", "a", "g", "e", "r">> -> Fn(Rec(<<[k |-> <<"r", "e", "n", "d", "e", "r">>, v |-> Fn(SpanOk)]>>))
       [] n = <<"B", "o", "o", "m">> -> FnThrows
       [] n = <<"L", "o", "o", "p">> -> Fn(Rec(<<[k |-> <<"L", "o", "o", "p">>, v |-> Rec(<<>>)]>>))
       [] n = <<"F", "e", "t", "c", "h">> -> Fn(Resolved(SpanOk))
       [] n = <<"F", "a", "i", "l", "s">> -> Fn(Rejected)
       [] n = <<"L", "a", "t", "e">> -> Fn(Slow(SpanOk))
       [] n = <<"O", "d", "d">> -> Fn(Bare)]

\* /^[a-z][a-z0-9]*$/i.test(firstKey) || /^[A-Z][a-zA-Z0-9]*$/.test(firstKey)
\*   || components.has(firstKey)
isValidTag(firstKey) ==
  \/ /\ firstKey # <<>>
     /\ IsLetter(firstKey[1])
     /\ \A i \in 2..Len(firstKey) : IsLetter(firstKey[i]) \/ IsDigit(firstKey[i])
  \/ firstKey \in DOMAIN components

\* ------------------------------------------------------ the renderer's calls
\* what a call returns: the markup and the renderer afterwards, or, when it
\* throws, the error's message and the renderer afterwards
Ret(html, R) == [html |-> html, R |-> R, threw |-> FALSE]
Throw(message, R) == [html |-> message, R |-> R, threw |-> TRUE]

Enter(R) ==
  [R EXCEPT !.renderDepth = @ + 1,
            !.peak = IF R.renderDepth + 1 > @ THEN R.renderDepth + 1 ELSE @]

Leave(R) == [R EXCEPT !.renderDepth = @ - 1]

Detected(R) == [R EXCEPT !.asyncDetected = TRUE]

MaxDepthMarker == <<"<", "!", "-", "-", " ", "M", "a", "x", " ", "r", "e", "n", "d", "e", "r", " ", "d", "e", "p", "t", "h", " ", "e", "x", "c", "e", "e", "d", "e", "d", " ", "-", "-", ">">>

\* ------------------------------------------------------- synchronous render

\* _evaluateValueWithDetection(value, context): the value and the renderer
_evaluateValueWithDetection(R, value) ==
  IF JsTypeOf(value) = "function" THEN
    IF value.throws THEN [v |-> Str(<<>>), R |-> R]
    ELSE IF IsThenable(value.ret) THEN [v |-> Str(asyncPlaceholder), R |-> Detected(R)]
    ELSE [v |-> value.ret, R |-> R]
  ELSE IF IsThenable(value) THEN [v |-> Str(asyncPlaceholder), R |-> Detected(R)]
  ELSE [v |-> value, R |-> R]

\* Object.entries(value) of a style value
StyleEntries(v) ==
  IF v.t = "rec" THEN v.entries
  ELSE IF v.t = "arr" THEN [i \in 1..Len(v.items) |-> [k |-> Digits(i - 1), v |-> v.items[i]]]
  ELSE <<>>

RECURSIVE _styleRules(_, _)
\* the loop of _renderStyle over the entries: the rules it pushes
_styleRules(R, entries) ==
  IF entries = <<>> THEN [rules |-> <<>>, R |-> R, threw |-> FALSE]
  ELSE
    LET Pushed(e, rest) ==
          IF e.v = Str(asyncPlaceholder) \/ e.v \in {Undefined, Null} THEN rest
          ELSE IF ~CanString(e.v) THEN [rules |-> <<>>, R |-> e.R, threw |-> TRUE]
          ELSE IF rest.threw THEN rest
          ELSE [rest EXCEPT !.rules =
                  <<_camelToKebab(Head(entries).k) \o <<":", " ">> \o JsString(e.v)>> \o @]
        Evaluated(e) == Pushed(e, _styleRules(e.R, Tail(entries)))
    IN  Evaluated(_evaluateValueWithDetection(R, Head(entries).v))

_renderStyle(R, style) ==
  IF Falsy(style) THEN Ret(<<>>, R)
  ELSE IF style.t = "str" THEN Ret(style.s, R)
  ELSE
    LET Joined(r) == IF r.threw THEN Throw(ConvertMessage, r.R)
                     ELSE Ret(JoinWith(r.rules, <<";", " ">>), r.R)
        Evaluated(e) ==
          IF e.v = Str(asyncPlaceholder) THEN Ret(<<>>, e.R)
          ELSE IF JsTypeOf(e.v) = "object" /\ e.v # Null
          THEN Joined(_styleRules(e.R, StyleEntries(e.v)))
          ELSE Ret(JsString(e.v), e.R)
    IN  Evaluated(_evaluateValueWithDetection(R, style))

RECURSIVE _processEntries(_, _)
\* the forEach of _processAttributes over Object.keys(props)
_processEntries(R, entries) ==
  IF entries = <<>> THEN Ret(<<>>, R)
  ELSE IF _shouldSkipAttribute(Head(entries).k) THEN _processEntries(R, Tail(entries))
  ELSE
    LET Pushed(e, rest) == Ret(_renderAttribute(Head(entries).k, e.v) \o rest.html, rest.R)
        Evaluated(e) == Pushed(e, _processEntries(e.R, Tail(entries)))
    IN  Evaluated(_evaluateValueWithDetection(R, Head(entries).v))

\* the props of the views of the model are plain objects, or absent
_processAttributes(R, props) == _processEntries(R, props.entries)

RECURSIVE render(_, _)
RECURSIVE _renderInternal(_, _)
RECURSIVE _renderComponentWithDetection(_, _)
RECURSIVE _renderElement(_, _, _)
RECURSIVE _renderElementContent(_, _)
RECURSIVE renderEach(_, _)

\* a render whose depth guard is two levels late: the alternative C15 is
\* tested against
renderUnguarded(R, vnode) ==
  LET Caught(r) ==
        IF r.threw
        THEN Ret(<<"<", "!", "-", "-", " ", "R", "e", "n", "d", "e", "r", " ", "e", "r", "r", "o", "r", ":", " ">> \o r.html \o <<" ", "-", "-", ">">>, Leave(r.R))
        ELSE Ret(r.html, Leave(r.R))
  IN  IF R.renderDepth > R.maxRenderDepth + 2 THEN Ret(MaxDepthMarker, R)
      ELSE Caught(_renderInternal(Enter(R), vnode))

\* render(vnode, context).  _renderInternal returns a string, so the promise
\* test on its result never succeeds.
render(R, vnode) ==
  LET Caught(r) ==
        IF r.threw
        THEN Ret(<<"<", "!", "-", "-", " ", "R", "e", "n", "d", "e", "r", " ", "e", "r", "r", "o", "r", ":", " ">> \o r.html \o <<" ", "-", "-", ">">>, Leave(r.R))
        ELSE Ret(r.html, Leave(r.R))
  IN  IF R.renderDepth > R.maxRenderDepth THEN Ret(MaxDepthMarker, R)
      ELSE Caught(_renderInternal(Enter(R), vnode))

\* items.map(child => this.render(child, context)).join('')
renderEach(R, items) ==
  IF items = <<>> THEN Ret(<<>>, R)
  ELSE
    LET Joined(a, b) == IF b.threw THEN b ELSE Ret(a.html \o b.html, b.R)
        Mapped(a) == IF a.threw THEN a ELSE Joined(a, renderEach(a.R, Tail(items)))
    IN  Mapped(render(R, Head(items)))

_renderInternal(R, vnode) ==
  IF Falsy(vnode) THEN Ret(<<>>, R)
  ELSE IF JsTypeOf(vnode) # "object" THEN Ret(_escapeHtml(JsString(vnode)), R)
  ELSE IF vnode.t = "arr" THEN renderEach(R, vnode.items)
  ELSE IF ObjectKeys(vnode) = <<>> THEN Ret(<<>>, R)
  ELSE
    LET tagName == ObjectKeys(vnode)[1]
        nodeProps == IF Falsy(Entry(vnode, tagName)) THEN Rec(<<>>)
                     ELSE Entry(vnode, tagName)
    IN  IF tagName \in DOMAIN components
        THEN _renderComponentWithDetection(R, tagName)
        ELSE _renderElement(R, tagName, nodeProps)

_renderComponentWithDetection(R, tagName) ==
  LET componentFn == components[tagName]
      componentResult == componentFn.ret
      renderFn == Entry(componentResult, <<"r", "e", "n", "d", "e", "r">>)
      Caught(r) ==
        IF r.threw
        THEN Ret(<<"<", "!", "-", "-", " ", "C", "o", "m", "p", "o", "n", "e", "n", "t", " ">> \o tagName \o <<" ", "e", "r", "r", "o", "r", ":", " ">> \o r.html \o <<" ", "-", "-", ">">>, r.R)
        ELSE r
      RenderCaught(r) ==
        IF r.threw
        THEN Ret(<<"<", "!", "-", "-", " ", "C", "o", "m", "p", "o", "n", "e", "n", "t", " ">> \o tagName \o <<" ", "r", "e", "n", "d", "e", "r", " ", "e", "r", "r", "o", "r", ":", " ">> \o r.html \o <<" ", "-", "-", ">">>, r.R)
        ELSE r
  IN  IF componentFn.throws THEN Caught(Throw(ErrorMessage, R))
      ELSE IF IsThenable(componentResult) THEN Ret(asyncPlaceholder, Detected(R))
      ELSE IF Falsy(componentResult) THEN Ret(<<>>, R)
      ELSE IF JsTypeOf(renderFn) = "function" THEN
        RenderCaught(IF renderFn.throws THEN Throw(ErrorMessage, R)
                     ELSE IF IsThenable(renderFn.ret) THEN Ret(asyncPlaceholder, Detected(R))
                     ELSE render(R, renderFn.ret))
      ELSE IF /\ JsTypeOf(componentResult) = "object"
              /\ ObjectKeys(componentResult) # <<>>
              /\ isValidTag(ObjectKeys(componentResult)[1])
        THEN Caught(render(R, componentResult))
      ELSE IF ~CanString(componentResult) THEN Caught(Throw(ConvertMessage, R))
      ELSE Ret(_escapeHtml(JsString(componentResult)), R)

_renderElement(R, tagName, props) ==
  LET styleHtml(style) ==
        IF ~style.threw /\ Trim(style.html) # <<>>
        THEN <<" ", "s", "t", "y", "l", "e", "=">> \o <<"\"">> \o _escapeAttributeValue(Str(style.html)) \o <<"\"">>
        ELSE <<>>
      Closed(attrs, style, content) ==
        IF content.threw THEN content
        ELSE Ret(<<"<">> \o tagName \o attrs.html \o styleHtml(style) \o <<">">> \o content.html
                 \o (IF _isVoidElement(tagName) THEN <<>> ELSE <<"<", "/">> \o tagName \o <<">">>),
                 content.R)
      Styled(attrs, style) == Closed(attrs, style, _renderElementContent(style.R, props))
      Opened(attrs) ==
        Styled(attrs, IF Entry(props, <<"s", "t", "y", "l", "e">>) # Undefined
                      THEN _renderStyle(attrs.R, Entry(props, <<"s", "t", "y", "l", "e">>))
                      ELSE Ret(<<>>, attrs.R))
  IN  Opened(_processAttributes(R, props))

_renderElementContent(R, props) ==
  LET Text(e) == IF ~CanString(e.v) THEN Throw(ConvertMessage, e.R)
                 ELSE Ret(_escapeHtml(JsString(e.v)), e.R)
      Kids(e) == IF e.v.t = "arr" THEN renderEach(e.R, e.v.items)
                 ELSE IF e.v \notin {Null, Undefined} THEN render(e.R, e.v)
                 ELSE Ret(<<>>, e.R)
  IN  IF Entry(props, <<"t", "e", "x", "t">>) # Undefined
      THEN Text(_evaluateValueWithDetection(R, Entry(props, <<"t", "e", "x", "t">>)))
      ELSE IF Entry(props, <<"c", "h", "i", "l", "d", "r", "e", "n">>) # Undefined
      THEN Kids(_evaluateValueWithDetection(R, Entry(props, <<"c", "h", "i", "l", "d", "r", "e", "n">>)))
      ELSE Ret(<<>>, R)


\* ------------------------------------------------------ asynchronous render
\* An async function is modelled by what its promise settles to: Ret is a
\* fulfilment and Throw a rejection.  The calls of a Promise.all are taken
\* one after the other; they share renderDepth, which is exact for the markup
\* as long as fewer than maxRenderDepth renders are in flight at once.

\* await promisify(value): the value, or the rejection
Await(R, value) ==
  IF ~IsThenable(value) THEN [v |-> value, R |-> R, threw |-> FALSE]
  ELSE IF value.fate = "rejected" THEN [v |-> Undefined, R |-> R, threw |-> TRUE]
  ELSE [v |-> value.v,
        R |-> [R EXCEPT !.waited = @ \/ value.fate = "slow",
                        !.waitedAt = IF ~R.waited /\ value.fate = "slow" THEN R.renderDepth ELSE @],
        threw |-> FALSE]

\* value ?? ''
OrEmpty(value) == IF value \in {Null, Undefined} THEN Str(<<>>) ELSE value

\* resolveToString(value): String(resolved ?? ''), or '' when that throws
resolveToString(R, value) ==
  LET Stringified(a) ==
        IF a.threw \/ ~CanString(OrEmpty(a.v)) THEN [v |-> Str(<<>>), R |-> a.R]
        ELSE [v |-> Str(JsString(OrEmpty(a.v))), R |-> a.R]
  IN  Stringified(Await(R, value))

\* _evaluateValueAsync(value, context)
_evaluateValueAsync(R, value) ==
  LET Awaited(a) == IF a.threw THEN [v |-> Str(<<>>), R |-> a.R] ELSE [v |-> a.v, R |-> a.R]
  IN  IF JsTypeOf(value) = "function" THEN
        IF value.throws THEN [v |-> Str(<<>>), R |-> R]
        ELSE Awaited(Await(R, value.ret))
      ELSE resolveToString(R, value)

\* str.endsWith(suffix)
EndsWith(s, suffix) ==
  Len(suffix) <= Len(s) /\ SubSeq(s, Len(s) - Len(suffix) + 1, Len(s)) = suffix

RECURSIVE _styleRulesAsync(_, _)
\* the Promise.all of _renderStyleAsync over the entries: the rules it yields
_styleRulesAsync(R, entries) ==
  IF entries = <<>> THEN [rules |-> <<>>, R |-> R, threw |-> FALSE]
  ELSE
    LET rule(e) == IF e.v \in {Undefined, Null} THEN <<>>
                   ELSE _camelToKebab(Head(entries).k) \o <<":", " ">> \o JsString(e.v)
        Pushed(e, rest) ==
          IF e.v \notin {Undefined, Null} /\ ~CanString(e.v)
          THEN [rules |-> <<>>, R |-> rest.R, threw |-> TRUE]
          ELSE [rest EXCEPT !.rules = <<rule(e)>> \o @]
        Evaluated(e) == Pushed(e, _styleRulesAsync(e.R, Tail(entries)))
    IN  Evaluated(_evaluateValueAsync(R, Head(entries).v))

_renderStyleAsync(R, style) ==
  IF Falsy(style) THEN Ret(<<>>, R)
  ELSE
    LET kept(rules) == SelectSeq(rules, LAMBDA rule :
                         /\ rule # <<>>
                         /\ ~EndsWith(rule, <<":", " ", "u", "n", "d", "e", "f", "i", "n", "e", "d">>)
                         /\ ~EndsWith(rule, <<":", " ", "n", "u", "l", "l">>))
        Joined(r) == IF r.threw THEN Throw(ConvertMessage, r.R)
                     ELSE Ret(JoinWith(kept(r.rules), <<";", " ">>), r.R)
        Evaluated(e) ==
          IF JsTypeOf(e.v) = "object" /\ e.v # Null
          THEN Joined(_styleRulesAsync(e.R, StyleEntries(e.v)))
          ELSE Ret(JsString(e.v), e.R)
    IN  Evaluated(_evaluateValueAsync(R, style))

RECURSIVE _processEntriesAsync(_, _)
\* the loop of _processAttributesAsync over Object.keys(props)
_processEntriesAsync(R, entries) ==
  IF entries = <<>> THEN Ret(<<>>, R)
  ELSE IF _shouldSkipAttribute(Head(entries).k) THEN _processEntriesAsync(R, Tail(entries))
  ELSE
    LET Pushed(e, rest) == Ret(_renderAttribute(Head(entries).k, e.v) \o rest.html, rest.R)
        Evaluated(e) == Pushed(e, _processEntriesAsync(e.R, Tail(entries)))
    IN  Evaluated(_evaluateValueAsync(R, Head(entries).v))

_processAttributesAsync(R, props) == _processEntriesAsync(R, props.entries)

RECURSIVE renderAsync(_, _)
RECURSIVE _renderInternalAsync(_, _)
RECURSIVE _renderComponentAsync(_, _)
RECURSIVE _renderElementAsync(_, _, _)
RECURSIVE _renderElementContentAsync(_, _)
RECURSIVE renderEachAsync(_, _)
RECURSIVE resumeAsync(_, _)
RECURSIVE mapRenderAsync(_, _)
RECURSIVE resumeEachAsync(_, _, _)

\* a renderAsync whose catch rethrows: the alternative C17 is tested against
renderAsyncRethrows(R, vnode) ==
  LET Caught(r) == [r EXCEPT !.R = Leave(r.R)]
  IN  IF R.renderDepth > R.maxRenderDepth THEN Ret(MaxDepthMarker, R)
      ELSE Caught(_renderInternalAsync(Enter(R), vnode))

\* renderAsync from its await on: the call has tested and raised renderDepth
resumeAsync(R, vnode) ==
  LET Caught(r) ==
        IF r.threw
        THEN Ret(<<"<", "!", "-", "-", " ", "A", "s", "y", "n", "c", " ", "r", "e", "n", "d", "e", "r", " ", "e", "r", "r", "o", "r", ":", " ">> \o r.html \o <<" ", "-", "-", ">">>, Leave(r.R))
        ELSE Ret(r.html, Leave(r.R))
  IN  Caught(_renderInternalAsync(R, vnode))

renderAsync(R, vnode) ==
  IF R.renderDepth > R.maxRenderDepth THEN Ret(MaxDepthMarker, R)
  ELSE resumeAsync(Enter(R), vnode)

\* items.map(child => this.renderAsync(child, context)): an async function runs
\* up to its first await when it is called, so every call of the map tests
\* renderDepth and raises it before any of them has resumed and lowered it.
\* entered[k] tells whether the k-th call passed the test.
mapRenderAsync(R, items) ==
  IF items = <<>> THEN [R |-> R, entered |-> <<>>]
  ELSE
    LET enters == R.renderDepth <= R.maxRenderDepth
        Rest(m) == [R |-> m.R, entered |-> <<enters>> \o m.entered]
    IN  Rest(mapRenderAsync(IF enters THEN Enter(R) ELSE R, Tail(items)))

\* the calls of the map resume, taken in list order
resumeEachAsync(R, items, entered) ==
  IF items = <<>> THEN Ret(<<>>, R)
  ELSE
    LET Joined(a, b) == IF b.threw THEN b ELSE Ret(a.html \o b.html, b.R)
        Mapped(a) == IF a.threw THEN a
                     ELSE Joined(a, resumeEachAsync(a.R, Tail(items), Tail(entered)))
    IN  Mapped(IF Head(entered) THEN resumeAsync(R, Head(items))
               ELSE Ret(MaxDepthMarker, R))

\* (await Promise.all(items.map(child => this.renderAsync(child, context)))).join('')
renderEachAsync(R, items) ==
  LET Resumed(m) == resumeEachAsync(m.R, items, m.entered)
  IN  Resumed(mapRenderAsync(R, items))

_renderInternalAsync(R, vnode) ==
  IF Falsy(vnode) THEN Ret(<<>>, R)
  ELSE IF JsTypeOf(vnode) # "object" THEN Ret(_escapeHtml(JsString(vnode)), R)
  ELSE IF vnode.t = "arr" THEN renderEachAsync(R, vnode.items)
  ELSE IF ObjectKeys(vnode) = <<>> THEN Ret(<<>>, R)
  ELSE
    LET tagName == ObjectKeys(vnode)[1]
        nodeProps == IF Falsy(Entry(vnode, tagName)) THEN Rec(<<>>)
                     ELSE Entry(vnode, tagName)
    IN  IF tagName \in DOMAIN components
        THEN _renderComponentAsync(R, tagName)
        ELSE _renderElementAsync(R, tagName, nodeProps)

_renderComponentAsync(R, tagName) ==
  LET componentFn == components[tagName]
      Caught(r) ==
        IF r.threw
        THEN Ret(<<"<", "!", "-", "-", " ", "A", "s", "y", "n", "c", " ", "c", "o", "m", "p", "o", "n", "e", "n", "t", " ">> \o tagName \o <<" ", "e", "r", "r", "o", "r", ":", " ">> \o r.html \o <<" ", "-", "-", ">">>, r.R)
        ELSE r
      RenderCaught(r) ==
        IF r.threw
        THEN Ret(<<"<", "!", "-", "-", " ", "C", "o", "m", "p", "o", "n", "e", "n", "t", " ">> \o tagName \o <<" ", "a", "s", "y", "n", "c", " ", "r", "e", "n", "d", "e", "r", " ", "e", "r", "r", "o", "r", ":", " ">> \o r.html \o <<" ", "-", "-", ">">>, r.R)
        ELSE r
      Rendering(rr) == IF rr.threw THEN Throw(ErrorMessage, rr.R)
                       ELSE renderAsync(rr.R, rr.v)
      Settled(awaited, componentResult, renderFn) ==
        IF componentFn.throws THEN Caught(Throw(ErrorMessage, R))
        ELSE IF awaited.threw THEN Caught(Throw(ErrorMessage, awaited.R))
        ELSE IF Falsy(componentResult) THEN Ret(<<>>, awaited.R)
        ELSE IF JsTypeOf(renderFn) = "function" THEN
          RenderCaught(IF renderFn.throws THEN Throw(ErrorMessage, awaited.R)
                       ELSE Rendering(Await(awaited.R, renderFn.ret)))
        ELSE IF /\ JsTypeOf(componentResult) = "object"
                /\ ObjectKeys(componentResult) # <<>>
                /\ isValidTag(ObjectKeys(componentResult)[1])
          THEN Caught(renderAsync(awaited.R, componentResult))
        ELSE IF ~CanString(componentResult) THEN Caught(Throw(ConvertMessage, awaited.R))
        ELSE Ret(_escapeHtml(JsString(componentResult)), awaited.R)
      Awaited(awaited) == Settled(awaited, awaited.v, Entry(awaited.v, <<"r", "e", "n", "d", "e", "r">>))
  IN  Awaited(Await(R, componentFn.ret))

_renderElementAsync(R, tagName, props) ==
  LET styleHtml(style) ==
        IF style.html # <<>>
        THEN <<" ", "s", "t", "y", "l", "e", "=">> \o <<"\"">> \o _escapeAttributeValue(Str(style.html)) \o <<"\"">>
        ELSE <<>>
      Closed(attrs, style, content) ==
        IF style.threw THEN style
        ELSE IF content.threw THEN content
        ELSE Ret(<<"<">> \o tagName \o attrs.html \o styleHtml(style) \o <<">">> \o content.html
                 \o (IF _isVoidElement(tagName) THEN <<>> ELSE <<"<", "/">> \o tagName \o <<">">>),
                 content.R)
      Styled(attrs, style) == Closed(attrs, style, _renderElementContentAsync(style.R, props))
      Opened(attrs) ==
        Styled(attrs, IF Entry(props, <<"s", "t", "y", "l", "e">>) # Undefined
                      THEN _renderStyleAsync(attrs.R, Entry(props, <<"s", "t", "y", "l", "e">>))
                      ELSE Ret(<<>>, attrs.R))
  IN  Opened(_processAttributesAsync(R, props))

_renderElementContentAsync(R, props) ==
  LET Text(e) == IF ~CanString(e.v) THEN Throw(ConvertMessage, e.R)
                 ELSE Ret(_escapeHtml(JsString(e.v)), e.R)
      Kids(e) == IF e.v.t = "arr" THEN renderEachAsync(e.R, e.v.items)
                 ELSE IF e.v \notin {Null, Undefined} THEN renderAsync(e.R, e.v)
                 ELSE Ret(<<>>, e.R)
  IN  IF Entry(props, <<"t", "e", "x", "t">>) # Undefined
      THEN Text(_evaluateValueAsync(R, Entry(props, <<"t", "e", "x", "t">>)))
      ELSE IF Entry(props, <<"c", "h", "i", "l", "d", "r", "e", "n">>) # Undefined
      THEN Kids(_evaluateValueAsync(R, Entry(props, <<"c", "h", "i", "l", "d", "r", "e", "n">>)))
      ELSE Ret(<<>>, R)


\* ------------------------------------------------------------ renderToString

\* _containsAsyncIndicators(result) for a string result
_containsAsyncIndicators(result) ==
  \/ Includes(result, <<"<", "!", "-", "-", " ", "L", "o", "a", "d", "i", "n", "g", ".", ".", ".", " ", "-", "-", ">">>)
  \/ Includes(result, <<"[", "o", "b", "j", "e", "c", "t", " ", "P", "r", "o", "m", "i", "s", "e", "]">>)
  \/ Includes(result, <<"<", "!", "-", "-", " ", "A", "s", "y", "n", "c", " ", "c", "o", "m", "p", "o", "n", "e", "n", "t">>)
  \/ Includes(result, <<"a", "s", "y", "n", "c", " ", "r", "e", "n", "d", "e", "r", "i", "n", "g", " ", "d", "e", "t", "e", "c", "t", "e", "d">>)

\* what a top-level call hands to its caller: a string (kind "string") or a
\* Promise (kind "promise") that fulfils with html, or, with threw, a throw
\* or a rejection with the message html
Returns(kind, r) == [kind |-> kind, html |-> r.html, threw |-> r.threw, R |-> r.R]

\* smartRender(vnode, context)
smartRender(R, vnode) ==
  LET Inspected(sync) ==
        IF sync.threw \/ sync.R.asyncDetected \/ _containsAsyncIndicators(sync.html)
        THEN Returns("promise", renderAsync([sync.R EXCEPT !.currentRenderIsAsync = TRUE], vnode))
        ELSE Returns("string", sync)
  IN  Inspected(render([R EXCEPT !.asyncDetected = FALSE, !.currentRenderIsAsync = FALSE], vnode))

ErrorDiv(title, message) ==
  <<"<", "d", "i", "v", " ", "s", "t", "y", "l", "e", "=", "\"", "c", "o", "l", "o", "r", ":", " ", "r", "e", "d", ";", "\"", ">">> \o title \o <<":", " ">> \o message \o <<"<", "/", "d", "i", "v", ">">>

\* renderToString(layout, context, {async: forceAsync}); inTime tells whether
\* the Slow thenables resolve before the timer of the forced-async race.  When
\* the timer wins, the Promise settles while renderAsync is still suspended at
\* its await: the renderer is then as that await found it.
renderToString(R, layout, forceAsync, inTime) ==
  LET Raced(r) ==
        IF r.R.waited /\ ~inTime
        THEN Returns("promise",
               Ret(ErrorDiv(<<"A", "s", "y", "n", "c", " ", "S", "t", "r", "i", "n", "g", "R", "e", "n", "d", "e", "r", "e", "r", " ", "E", "r", "r", "o", "r">>, <<"A", "s", "y", "n", "c", " ", "r", "e", "n", "d", "e", "r", " ", "t", "i", "m", "e", "o", "u", "t">>),
                   [r.R EXCEPT !.renderDepth = r.R.waitedAt]))
        ELSE IF r.threw
        THEN Returns("promise", Ret(ErrorDiv(<<"A", "s", "y", "n", "c", " ", "S", "t", "r", "i", "n", "g", "R", "e", "n", "d", "e", "r", "e", "r", " ", "E", "r", "r", "o", "r">>, r.html), r.R))
        ELSE Returns("promise", r)
      Smart(result) ==
        IF result.threw
        THEN [result EXCEPT !.threw = FALSE,
                !.html = ErrorDiv(IF result.kind = "promise" THEN <<"S", "m", "a", "r", "t", " ", "R", "e", "n", "d", "e", "r", " ", "E", "r", "r", "o", "r">>
                                  ELSE <<"S", "t", "r", "i", "n", "g", "R", "e", "n", "d", "e", "r", "e", "r", " ", "E", "r", "r", "o", "r">>, result.html)]
        ELSE result
      Sync(r) ==
        IF r.threw THEN Returns("string", Ret(ErrorDiv(<<"S", "t", "r", "i", "n", "g", "R", "e", "n", "d", "e", "r", "e", "r", " ", "E", "r", "r", "o", "r">>, r.html), r.R))
        ELSE Returns("string", r)
  IN  IF Falsy(layout) THEN Returns("string", Ret(<<"<", "p", ">", "N", "o", " ", "l", "a", "y", "o", "u", "t", " ", "p", "r", "o", "v", "i", "d", "e", "d", "<", "/", "p", ">">>, R))
      ELSE IF forceAsync THEN Raced(renderAsync(R, layout))
      ELSE IF R.autoDetectAsync THEN Smart(smartRender(R, layout))
      ELSE Sync(render(R, layout))

\* juris.layout
juris_layout == SpanOk

\* api.renderToString(layout, options): an async function
api_renderToString(R, layout, forceAsync, inTime) ==
  LET Caught(result) ==
        IF result.threw
        THEN [result EXCEPT !.kind = "promise", !.threw = FALSE,
                            !.html = ErrorDiv(<<"R", "e", "n", "d", "e", "r", " ", "E", "r", "r", "o", "r">>, result.html)]
        ELSE [result EXCEPT !.kind = "promise"]
      Chosen(layoutToRender) ==
        IF Falsy(layoutToRender)
        THEN Returns("promise", Ret(<<"<", "p", ">", "N", "o", " ", "l", "a", "y", "o", "u", "t", " ", "p", "r", "o", "v", "i", "d", "e", "d", "<", "/", "p", ">">>, R))
        ELSE Caught(renderToString(R, layoutToRender, forceAsync, inTime))
  IN  Chosen(IF Falsy(layout) THEN juris_layout ELSE layout)


\* -------------------------------------------- the string renderer's machine

\* the record of a call: its arguments and what it handed back
Rendered(op, layout, forceAsync, inTime, result) ==
  [op |-> op, layout |-> layout, forceAsync |-> forceAsync, inTime |-> inTime,
   autoDetect |-> stringRenderer.autoDetectAsync,
   kind |-> result.kind, html |-> result.html, threw |-> result.threw,
   peak |-> result.R.peak, waited |-> result.R.waited]

\* the renderer at the start of a call
AtCall ==
  [stringRenderer EXCEPT !.peak = stringRenderer.renderDepth, !.waited = FALSE, !.waitedAt = 0]

\* the application calls stringRenderer.renderToString(layout, null, {async});
\* it looks at one call at a time, and calls cleanup() before the next
RenderToString(layout, forceAsync, inTime) ==
  LET Handed(result) ==
        /\ stringRenderer' = result.R
        /\ rendered' = Rendered("renderToString", layout, forceAsync, inTime, result)
  IN  /\ rendered = NotRendered
      /\ Handed(renderToString(AtCall, layout, forceAsync, inTime))
      /\ UNCHANGED <<domRenderer, lastUpdate>>
      /\ UNCHANGED storeVars

\* the application calls api.renderToString(layout, {async}), or, with
\* forceAsync, api.renderToStringAsync(layout)
ApiRenderToString(layout, forceAsync, inTime) ==
  LET Handed(result) ==
        /\ stringRenderer' = result.R
        /\ rendered' = Rendered("api.renderToString", layout, forceAsync, inTime, result)
  IN  /\ rendered = NotRendered
      /\ Handed(api_renderToString(AtCall, layout, forceAsync, inTime))
      /\ UNCHANGED <<domRenderer, lastUpdate>>
      /\ UNCHANGED storeVars

\* setAutoDetect(enabled)
SetAutoDetect(enabled) ==
  /\ stringRenderer' = [stringRenderer EXCEPT !.autoDetectAsync = enabled]
  /\ UNCHANGED rendered
  /\ UNCHANGED <<domRenderer, lastUpdate>>
  /\ UNCHANGED storeVars

\* cleanup()
Cleanup ==
  /\ stringRenderer' = [stringRenderer EXCEPT !.renderDepth = 0, !.asyncDetected = FALSE,
                                              !.currentRenderIsAsync = FALSE,
                                              !.peak = 0, !.waited = FALSE, !.waitedAt = 0]
  /\ rendered' = NotRendered
  /\ UNCHANGED <<domRenderer, lastUpdate>>
  /\ UNCHANGED storeVars

\* ---- the views the renderer is given
El(tagName, entries) == Rec(<<[k |-> tagName, v |-> Rec(entries)]>>)
KV(k, v) == [k |-> k, v |-> v]
Component(name) == Rec(<<[k |-> name, v |-> Rec(<<>>)]>>)

\* {p: {text: 'p'}}
Para == El(<<"p">>, <<KV(<<"t", "e", "x", "t">>, Str(<<"p">>))>>)

TextValues ==
  { Str(<<"o", "k">>), Str(<<"<", "b", ">", "&">>), Str(<<"\"", "i", "t", "'", "s", "\"">>), Str(<<"[", "o", "b", "j", "e", "c", "t", " ", "P", "r", "o", "m", "i", "s", "e", "]">>), Str(<<"&", "l", "t", ";">>),
    Num(1), Null, Bool(FALSE),
    Fn(Str(<<"o", "k">>)), FnThrows, Fn(Bare), Fn(Undefined),
    Resolved(Str(<<"o", "k">>)), Rejected, Slow(Str(<<"o", "k">>)), Fn(Resolved(Str(<<"<", "i", ">">>))) }

BooleanValues ==
  { Bool(TRUE), Bool(FALSE), Null, Undefined, Str(<<>>), Str(<<"d", "i", "s", "a", "b", "l", "e", "d">>), Str(<<"y", "e", "s">>),
    Num(1), Num(0), Fn(Bool(TRUE)), Fn(Bool(FALSE)), FnThrows, Resolved(Bool(TRUE)) }

AttributeValues ==
  { Str(<<"a", "<", "\"", "b", "\"", ">", "&", "'", "c", "'">>), Str(<<" ", "x", " ">>), Arr(<<Str(<<"a">>), Str(<<"b">>)>>), Num(2),
    Fn(Str(<<"<">>)), FnThrows, Resolved(Str(<<">">>)), Rejected }

StyleValues ==
  { Str(<<"c", "o", "l", "o", "r", ":", " ", "r", "e", "d">>), Str(<<" ">>),
    Rec(<<KV(<<"f", "o", "n", "t", "S", "i", "z", "e">>, Str(<<"1", "p", "x">>)), KV(<<"c", "o", "l", "o", "r">>, Str(<<"\"", "r", "e", "d", "\"">>))>>),
    Rec(<<KV(<<"c", "o", "l", "o", "r">>, Null), KV(<<"t", "o", "p">>, Fn(Num(0)))>>),
    Fn(Rec(<<KV(<<"c", "o", "l", "o", "r">>, Str(<<"r", "e", "d">>))>>)),
    Fn(Rec(<<KV(<<"c", "o", "l", "o", "r">>, Fn(Bare))>>)),
    FnThrows, Resolved(Rec(<<KV(<<"c", "o", "l", "o", "r">>, Str(<<"r", "e", "d">>))>>)),
    Rec(<<KV(<<"c", "o", "l", "o", "r">>, Resolved(Str(<<"r", "e", "d">>)))>>) }

ChildrenValues ==
  { Arr(<<Para>>), Arr(<<Para, Component(<<"B", "o", "o", "m">>), Para>>),
    Arr(<<Para, Component(<<"F", "a", "i", "l", "s">>), Para>>), Para, Str(<<"<", "h", "i", ">">>), Null,
    Fn(Arr(<<Para, Para>>)), Fn(Para), FnThrows, Resolved(Arr(<<Para>>)),
    Fn(Arr(<<Para, Para, Para, Para>>)),
    Fn(Resolved(Arr(<<Para>>))), Arr(<<Resolved(Para)>>), Arr(<<Str(<<"a">>), Null, Num(1)>>),
    Component(<<"L", "o", "o", "p">>), Arr(<<Para, El(<<"b">>, <<KV(<<"t", "e", "x", "t">>, Fn(Bare))>>), Para>>) }

Elements ==
  {El(<<"d", "i", "v">>, <<KV(<<"t", "e", "x", "t">>, v)>>) : v \in TextValues}
  \cup {El(<<"b", "u", "t", "t", "o", "n">>, <<KV(<<"d", "i", "s", "a", "b", "l", "e", "d">>, v)>>) : v \in BooleanValues}
  \cup {El(<<"i", "n", "p", "u", "t">>, <<KV(<<"C", "h", "e", "c", "k", "e", "d">>, v), KV(<<"o", "n", "c", "l", "i", "c", "k">>, Fn(Null))>>) :
          v \in {Bool(TRUE), Bool(FALSE), Str(<<"c", "h", "e", "c", "k", "e", "d">>)}}
  \cup {El(<<"a">>, <<KV(k, v)>>) : k \in { <<"t", "i", "t", "l", "e">>, <<"c", "l", "a", "s", "s">>, <<"d", "a", "t", "a", "-", "x">>, <<"t", "a", "b", "i", "n", "d", "e", "x">> },
                                   v \in AttributeValues}
  \cup {El(<<"d", "i", "v">>, <<KV(<<"s", "t", "y", "l", "e">>, v), KV(<<"t", "e", "x", "t">>, Str(<<"s">>))>>) : v \in StyleValues}
  \cup {El(<<"d", "i", "v">>, <<KV(<<"c", "h", "i", "l", "d", "r", "e", "n">>, v)>>) : v \in ChildrenValues}

Layouts ==
  Elements
  \cup {Component(n) : n \in DOMAIN components}
  \cup {Arr(<<Para, Component(n), Para>>) : n \in DOMAIN components}
  \cup {Null, Str(<<"<", "p", "l", "a", "i", "n", ">">>), Arr(<<>>)}

InitRender == Starts(New(EmptyObj, <<>>))

\* whether the Slow thenables beat the timer matters to a forced-async call only
Timings(forceAsync) == IF forceAsync THEN BOOLEAN ELSE {TRUE}

NextRender ==
  \/ \E layout \in Layouts, forceAsync \in BOOLEAN :
       \E inTime \in Timings(forceAsync) : RenderToString(layout, forceAsync, inTime)
  \/ \E layout \in Layouts, forceAsync \in BOOLEAN :
       \E inTime \in Timings(forceAsync) : ApiRenderToString(layout, forceAsync, inTime)
  \/ \E enabled \in BOOLEAN : SetAutoDetect(enabled)
  \/ Cleanup

SpecRender == InitRender /\ [][NextRender]_vars

\* ------------------------------------------------------------ passes in
\* progress at the same time

\* the application calls stringRenderer.renderToString(layout, null, {async})
\* again without a cleanup() in between: a forced-async pass the timeout has
\* abandoned is still suspended at its await when this pass starts
RenderToStringNext(layout, forceAsync, inTime) ==
  LET Handed(result) ==
        /\ stringRenderer' = result.R
        /\ rendered' = Rendered("renderToString", layout, forceAsync, inTime, result)
  IN  /\ rendered.op = "renderToString"
      /\ Handed(renderToString(AtCall, layout, forceAsync, inTime))
      /\ UNCHANGED <<domRenderer, lastUpdate>>
      /\ UNCHANGED storeVars

\* the views of the passes: a component that awaits a slow thenable, alone and
\* in a list, a paragraph, and elements one and two levels above a paragraph
PassLayouts ==
  { Component(<<"L", "a", "t", "e">>),
    Arr(<<Para, Component(<<"L", "a", "t", "e">>), Para>>),
    Para,
    El(<<"d", "i", "v">>, <<KV(<<"c", "h", "i", "l", "d", "r", "e", "n">>, Fn(Arr(<<Para, Para>>)))>>),
    El(<<"d", "i", "v">>, <<KV(<<"c", "h", "i", "l", "d", "r", "e", "n">>,
        El(<<"d", "i", "v">>, <<KV(<<"c", "h", "i", "l", "d", "r", "e", "n">>, Fn(Para))>>))>>),
    El(<<"d", "i", "v">>, <<KV(<<"t", "e", "x", "t">>, Slow(Str(<<"o", "k">>)))>>) }

NextPasses ==
  \/ \E layout \in PassLayouts, forceAsync \in BOOLEAN :
       \E inTime \in Timings(forceAsync) : RenderToString(layout, forceAsync, inTime)
  \/ \E layout \in PassLayouts, forceAsync \in BOOLEAN :
       \E inTime \in Timings(forceAsync) : RenderToStringNext(layout, forceAsync, inTime)
  \/ \E enabled \in BOOLEAN : SetAutoDetect(enabled)
  \/ Cleanup

SpecPasses == InitRender /\ [][NextPasses]_vars


\* ======================================================= the DOM renderer
\* DOMRenderer of src/unnamed/part_001 in batch mode: one parent element whose
\* children property is a function of the state, and the reconciliation of
\* its child elements against the lists of vnodes that function returns.
\* An element is its index in domRenderer.nodes: two elements are the same
\* node when the indexes are equal.  The vnodes of the lists are leaves with
\* static properties (key, text, title).

\* ------------------------------------------------------------ JS built-ins

\* the printable ASCII characters, from the space (code 32) on; "grave" holds
\* the place of the grave accent (code 96), which no string of the model has
Ascii == <<" ", "!", "\"", "#", "$", "%", "&", "'", "(", ")", "*", "+", ",", "-", ".", "/", "0", "1", "2", "3", "4", "5", "6", "7", "8", "9", ":", ";", "<", "=", ">", "?", "@", "A", "B", "C", "D", "E", "F", "G", "H", "I", "J", "K", "L", "M", "N", "O", "P", "Q", "R", "S", "T", "U", "V", "W", "X", "Y", "Z", "[", "\\", "]", "^", "_", "grave", "a", "b", "c", "d", "e", "f", "g", "h", "i", "j", "k", "l", "m", "n", "o", "p", "q", "r", "s", "t", "u", "v", "w", "x", "y", "z", "{", "|", "}", "~">>

\* ch.charCodeAt(0)
charCodeAt(ch) == 31 + (CHOOSE i \in 1..Len(Ascii) : Ascii[i] = ch)

UpperOf(ch) ==
  IF IsLower(ch) THEN UpperCase[CHOOSE i \in 1..Len(LowerCase) : LowerCase[i] = ch] ELSE ch

\* s.toUpperCase()
ToUpperCase(s) == [i \in 1..Len(s) |-> UpperOf(s[i])]

\* A 32-bit integer as its two 16-bit halves, the number hi * 65536 + lo taken
\* modulo 2^32: the integers of the model checker have no room for the
\* products of the hash.
Half == 65536

Int32(hi, lo) == [hi |-> hi, lo |-> lo]

\* the number is negative as a signed 32-bit integer
IsNegative(n) == n.hi >= Half \div 2

\* ((hash << 5) - hash) + char, then hash & hash: 31 * hash + char as a
\* 32-bit integer
HashStep(hash, char) ==
  LET low == hash.lo * 31 + char
  IN  Int32((hash.hi * 31 + low \div Half) % Half, low % Half)

\* Math.abs(n) of a 32-bit integer
Abs32(n) ==
  IF IsNegative(n)
  THEN Int32((Half - 1 - n.hi + (IF n.lo = 0 THEN 1 ELSE 0)) % Half, (Half - n.lo) % Half)
  ELSE n

Base36 == <<"0", "1", "2", "3", "4", "5", "6", "7", "8", "9">> \o LowerCase

RECURSIVE ToString36(_)
\* n.toString(36), n not negative: long division of the two halves by 36
ToString36(n) ==
  LET rest == (n.hi % 36) * Half + n.lo
      quotient == Int32(n.hi \div 36, rest \div 36)
      digit == <<Base36[(rest % 36) + 1]>>
  IN  IF quotient = Int32(0, 0) THEN digit ELSE ToString36(quotient) \o digit

\* a Map as the sequence of its entries, in insertion order
KeyedHas(map, key) == \E i \in 1..Len(map) : map[i].k = key

\* map.get(key): undefined when the Map has no such key
KeyedGet(map, key) ==
  IF KeyedHas(map, key) THEN map[CHOOSE i \in 1..Len(map) : map[i].k = key].v ELSE Undefined

\* map.set(key, value): an existing key keeps its place
KeyedSet(map, key, value) ==
  IF KeyedHas(map, key)
  THEN [i \in 1..Len(map) |-> IF map[i].k = key THEN [k |-> key, v |-> value] ELSE map[i]]
  ELSE Append(map, [k |-> key, v |-> value])

\* map.delete(key)
KeyedDelete(map, key) == SelectSeq(map, LAMBDA e : e.k # key)

\* the array without the element: what removeChild leaves of a list of children
removeFrom(list, element) == SelectSeq(list, LAMBDA e : e # element)

\* ------------------------------------------------------------ the elements

\* document.createElement(tagName): an HTML element reports its tag in upper case
createElement(tagName) ==
  [tagName |-> ToUpperCase(tagName), textContent |-> <<>>, className |-> <<>>,
   attributes |-> <<>>, _jurisKey |-> Undefined, listeners |-> <<>>]

\* _setStaticAttribute(element, attr, value), for the attributes an element
\* reflects (className, htmlFor) and those it takes with setAttribute
_setStaticAttribute(element, attr, value) ==
  IF attr \in { <<"c", "h", "i", "l", "d", "r", "e", "n">>, <<"k", "e", "y">> } THEN element
  ELSE IF JsTypeOf(value) = "function" THEN element
  ELSE IF attr = <<"c", "l", "a", "s", "s", "N", "a", "m", "e">> THEN [element EXCEPT !.className = JsString(value)]
  ELSE IF attr = <<"h", "t", "m", "l", "F", "o", "r">>
       THEN [element EXCEPT !.attributes = KeyedSet(@, <<"f", "o", "r">>, JsString(value))]
  ELSE [element EXCEPT !.attributes = KeyedSet(@, attr, JsString(value))]

RECURSIVE _updateEachProperty(_, _, _)
\* the forEach of _updateElementProperties over the keys
_updateEachProperty(element, props, keys) ==
  IF keys = <<>> THEN element
  ELSE LET key == Head(keys)
           value == Entry(props, key)
           updated ==
             IF key \in { <<"k", "e", "y">>, <<"c", "h", "i", "l", "d", "r", "e", "n">>, <<"t", "e", "x", "t">>, <<"s", "t", "y", "l", "e">> } THEN element
             ELSE IF JsTypeOf(value) # "function"
                  THEN _setStaticAttribute(element, key, value)
                  ELSE element
       IN  _updateEachProperty(updated, props, Tail(keys))

\* _updateElementProperties(element, props)
_updateElementProperties(element, props) ==
  _updateEachProperty(element, props, ObjectKeys(props))

\* _handleText(element, text, subscriptions) for a text that is neither a
\* function nor a thenable
_handleText(element, text) == [element EXCEPT !.textContent = JsString(text)]

\* { eventName, handler }: a listener of an element
Listener(eventName, handler) == [eventName |-> eventName, handler |-> handler]

\* _handleEvent(element, eventName, handler, eventListeners): the listeners
\* are added to the element, and the same records are pushed to eventListeners
\* (the listeners the element has more after the call than before it).
\* touchStart, touchMove and touchEnd are closures of the call; no eventMap
\* entry renames the events of the model.
_handleEvent(element, eventName, handler) ==
  IF eventName = <<"o", "n", "c", "l", "i", "c", "k">>
  THEN [element EXCEPT !.listeners = @ \o
          << Listener(<<"c", "l", "i", "c", "k">>, handler),
             Listener(<<"t", "o", "u", "c", "h", "s", "t", "a", "r", "t">>, Fn(Undefined)),
             Listener(<<"t", "o", "u", "c", "h", "m", "o", "v", "e">>, Fn(Undefined)),
             Listener(<<"t", "o", "u", "c", "h", "e", "n", "d">>, Fn(Undefined)) >>]
  ELSE [element EXCEPT !.listeners =
          Append(@, Listener(ToLowerCase(SubSeq(eventName, 3, Len(eventName))), handler))]

RECURSIVE _processEachProperty(_, _, _)
\* the forEach of _processProperties, and that of _setupSyncElement, over the
\* keys of a leaf: text, key, event handlers and static attributes
_processEachProperty(element, props, keys) ==
  IF keys = <<>> THEN element
  ELSE LET key == Head(keys)
           value == Entry(props, key)
           processed ==
             IF key = <<"t", "e", "x", "t">> THEN _handleText(element, value)
             ELSE IF StartsWith(key, <<"o", "n">>) THEN _handleEvent(element, key, value)
             ELSE IF key # <<"k", "e", "y">> THEN _setStaticAttribute(element, key, value)
             ELSE element
       IN  _processEachProperty(processed, props, Tail(keys))

\* _processProperties(element, props, subscriptions, eventListeners)
_processProperties(element, props) == _processEachProperty(element, props, ObjectKeys(props))

\* _setupSyncElement(element, props, subscriptions, eventListeners)
_setupSyncElement(element, props) == _processEachProperty(element, props, ObjectKeys(props))

\* _resetElement(element): the text, the class and every attribute but id and
\* data-juris-key go
_resetElement(element) ==
  [element EXCEPT !.textContent = <<>>, !.className = <<>>,
                  !.attributes = SelectSeq(@, LAMBDA a : a.k \in { <<"i", "d">>, <<"d", "a", "t", "a", "-", "j", "u", "r", "i", "s", "-", "k", "e", "y">> })]

\* _canReuseElement(element, tagName, props)
_canReuseElement(element, tagName) == ToLowerCase(element.tagName) = ToLowerCase(tagName)

\* ----------------------------------------------------------------- the keys

RECURSIVE _hashFrom(_, _)
\* the loop of _hashProps over the characters of str, from the hash so far:
\* the loop over a string is the loop over its first half, then the loop over
\* its second half from where the first arrived (hash = hash has the hash so
\* far computed before the rest of the loop starts)
_hashFrom(hash, str) ==
  IF hash = hash /\ str = <<>> THEN hash
  ELSE IF Len(str) = 1 THEN HashStep(hash, charCodeAt(str[1]))
  ELSE LET half == Len(str) \div 2
       IN  _hashFrom(_hashFrom(hash, SubSeq(str, 1, half)), SubSeq(str, half + 1, Len(str)))

\* _hashProps(props)
_hashProps(props) == ToString36(Abs32(_hashFrom(Int32(0, 0), JsonStringify(props))))

\* _generateKey(tagName, props)
_generateKey(tagName, props) ==
  IF ~Falsy(Entry(props, <<"k", "e", "y">>)) THEN Entry(props, <<"k", "e", "y">>)
  ELSE LET keyProps == << <<"i", "d">>, <<"c", "l", "a", "s", "s", "N", "a", "m", "e">>, <<"t", "e", "x", "t">> >>
           present == SelectSeq(keyProps, LAMBDA prop :
                        ~Falsy(Entry(props, prop)) /\ JsTypeOf(Entry(props, prop)) # "function")
           keyParts == <<tagName>>
                       \o [i \in 1..Len(present) |->
                             present[i] \o <<":">> \o JsString(Entry(props, present[i]))]
                       \o << <<"h", "a", "s", "h", ":">> \o _hashProps(props) >>
       IN  Str(JoinWith(keyParts, <<"|">>))


\* ------------------------------------------------------------ the renderer

\* this.maxFailures
maxFailures == 3

\* setRenderMode(mode)
setRenderMode(D, mode) ==
  IF mode \in { <<"f", "i", "n", "e", "-", "g", "r", "a", "i", "n", "e", "d">>, <<"b", "a", "t", "c", "h">> } THEN [D EXCEPT !.renderMode = mode] ELSE D

\* a call that hands back an element: the renderer after it and the element
Made(D, element) == [D |-> D, element |-> element]

\* the element leaves its parent node, the mounted parent, the fragment a
\* reconciliation fills or another element (removeChild, and the first half
\* of appendChild)
Detach(L, element) ==
  [L EXCEPT !.D.childNodes = removeFrom(@, element), !.fragment = removeFrom(@, element),
            !.D.parentNode = KeyedDelete(@, element)]

\* a parentNode that is null, and one that is the fragment of a reconciliation
NoNode == -1
Fragment == -2

\* element.parentNode: the children of the mounted parent (D.parent, 0 when
\* the application made it outside the renderer) are D.childNodes; the other
\* elements that have a parent are in the map D.parentNode
parentNode(L, element) ==
  IF \E i \in 1..Len(L.fragment) : L.fragment[i] = element THEN Fragment
  ELSE IF \E i \in 1..Len(L.D.childNodes) : L.D.childNodes[i] = element THEN L.D.parent
  ELSE IF KeyedHas(L.D.parentNode, element) THEN KeyedGet(L.D.parentNode, element)
  ELSE NoNode

\* element.children, as a set
childrenOf(L, element) ==
  { child \in 1..Len(L.D.nodes) : parentNode(L, child) = element }

RECURSIVE _walksUpTo(_, _, _)
\* the while loop of _wouldCreateCircularReference: current, or one of its
\* ancestors, is child
_walksUpTo(L, current, child) ==
  IF current \in {NoNode, Fragment} THEN FALSE
  ELSE IF current = child THEN TRUE
  ELSE _walksUpTo(L, parentNode(L, current), child)

\* element.contains(other): other is the element or a descendant of it
contains(L, element, other) ==
  element = other \/ _walksUpTo(L, parentNode(L, other), element)

\* a check that finds no circular reference
_neverCircular(L, parent, child) == FALSE

RECURSIVE _wouldCreateCircularReference(_, _, _)
\* _wouldCreateCircularReference(parent, child)
_wouldCreateCircularReference(L, parent, child) ==
  \/ parent = child
  \/ _walksUpTo(L, parentNode(L, parent), child)
  \/ contains(L, child, parent)
  \/ \E descendant \in childrenOf(L, child) :
       _wouldCreateCircularReference(L, parent, descendant)

\* fragment.appendChild(element)
appendChild(L, element) ==
  [Detach(L, element) EXCEPT !.fragment = Append(@, element)]

\* the end of _createElementOptimized and of _createElementFineGrained: the
\* element that has got unsubscribe handles or listeners is entered in
\* this.subscriptions
BoundTo(D, element, before, subscriptions) ==
  LET eventListeners == SubSeq(D.nodes[element].listeners, Len(before) + 1,
                               Len(D.nodes[element].listeners))
  IN  IF Len(subscriptions) > 0 \/ Len(eventListeners) > 0
      THEN [D EXCEPT !.subscriptions =
              KeyedSet(@, element, [subscriptions |-> subscriptions,
                                    eventListeners |-> eventListeners])]
      ELSE D

\* the same for an element without reactive property
Bound(D, element, before) == BoundTo(D, element, before, <<>>)

\* element.removeEventListener(eventName, handler) for each record
removeEventListeners(listeners, eventListeners) ==
  SelectSeq(listeners, LAMBDA l : \A i \in 1..Len(eventListeners) : eventListeners[i] # l)

\* DOMRenderer.cleanup(element), for a leaf without state subscriptions,
\* component or placeholder: its listeners are removed and its entry deleted,
\* and the entry of its key leaves the cache
DOMRenderer_cleanup(D, element) ==
  LET TornDown(torn) ==
        IF ~Falsy(torn.nodes[element]._jurisKey)
        THEN [torn EXCEPT !.elementCache = KeyedDelete(@, torn.nodes[element]._jurisKey)]
        ELSE torn
  IN  TornDown(IF KeyedHas(D.subscriptions, element)
               THEN [D EXCEPT !.nodes[element].listeners =
                                 removeEventListeners(@, KeyedGet(D.subscriptions, element).eventListeners),
                              !.subscriptions = KeyedDelete(@, element),
                              !.tornDown = Append(@, element)]
               ELSE D)

\* _recycleElement(element)
_recycleElement(L, element) ==
  LET tagName == ToLowerCase(L.D.nodes[element].tagName)
      Pushed(withPools, pool) ==
        IF Len(pool) < withPools.D.recyclePoolSize
        THEN [withPools EXCEPT
                !.D = [DOMRenderer_cleanup(withPools.D, element) EXCEPT
                         !.nodes[element] = _resetElement(@),
                         !.recyclePool = KeyedSet(@, tagName, Append(pool, element))]]
        ELSE withPools
      Pooled(detached, pools) ==
        Pushed([detached EXCEPT !.D.recyclePool = pools], KeyedGet(pools, tagName))
      Detached(detached) ==
        Pooled(detached, IF KeyedHas(detached.D.recyclePool, tagName)
                         THEN detached.D.recyclePool
                         ELSE KeyedSet(detached.D.recyclePool, tagName, <<>>))
  IN  Detached(Detach(L, element))

\* _getRecycledElement(tagName): the element is null (here 0) when the pool
\* of the tag is missing or empty
_getRecycledElement(D, tagName) ==
  LET pool == KeyedGet(D.recyclePool, tagName)
  IN  IF KeyedHas(D.recyclePool, tagName) /\ Len(pool) > 0
      THEN LET element == pool[Len(pool)]
           IN  Made([D EXCEPT !.recyclePool = KeyedSet(@, tagName, SubSeq(pool, 1, Len(pool) - 1)),
                              !.nodes[element] = _resetElement(@)], element)
      ELSE Made(D, 0)

\* _createElementOptimized(tagName, props, key)
_createElementOptimized(D, tagName, props, key) ==
  LET Processed(cached, element) ==
        Made(Bound([cached EXCEPT !.nodes[element] = _processProperties(@, props)],
                   element, cached.nodes[element].listeners),
             element)
      Cached(made) ==
        Processed(IF ~Falsy(key)
                  THEN [made.D EXCEPT !.elementCache = KeyedSet(@, key, made.element),
                                      !.nodes[made.element]._jurisKey = key]
                  ELSE made.D,
                  made.element)
      Recycled(recycled) ==
        Cached(IF recycled.element # 0 THEN recycled
               ELSE Made([D EXCEPT !.nodes = Append(@, createElement(tagName))], Len(D.nodes) + 1))
  IN  Recycled(_getRecycledElement(D, tagName))

\* _createElementFineGrained(tagName, props), for props that are not async
_createElementFineGrained(D, tagName, props) ==
  LET element == Len(D.nodes) + 1
  IN  Made(Bound([D EXCEPT !.nodes = Append(@, _setupSyncElement(createElement(tagName), props))],
                 element, <<>>),
           element)

\* render(vnode), for a vnode that is one element and no registered component.
\* In batch mode _generateKey throws when JSON.stringify(props) does: the
\* catch counts the failure, demotes the mode at maxFailures and creates the
\* element the fine-grained way.
DOMRenderer_render(D, vnode) ==
  LET tagName == ObjectKeys(vnode)[1]
      props == IF Falsy(Entry(vnode, tagName)) THEN Rec(<<>>) ELSE Entry(vnode, tagName)
      Failed(counted) ==
        _createElementFineGrained(
          IF counted.failureCount >= maxFailures
          THEN [counted EXCEPT !.renderMode = <<"f", "i", "n", "e", "-", "g", "r", "a", "i", "n", "e", "d">>] ELSE counted,
          tagName, props)
      Looked(key) ==
        LET cachedElement == KeyedGet(D.elementCache, key)
        IN  IF KeyedHas(D.elementCache, key) /\ _canReuseElement(D.nodes[cachedElement], tagName)
            THEN Made([D EXCEPT !.nodes[cachedElement] = _updateElementProperties(@, props)],
                      cachedElement)
            ELSE _createElementOptimized(D, tagName, props, key)
  IN  IF D.renderMode = <<"f", "i", "n", "e", "-", "g", "r", "a", "i", "n", "e", "d">> THEN _createElementFineGrained(D, tagName, props)
      ELSE IF Falsy(Entry(props, <<"k", "e", "y">>)) /\ JsonStringifyThrows(props)
      THEN Failed([D EXCEPT !.failureCount = @ + 1])
      ELSE Looked(IF ~Falsy(Entry(props, <<"k", "e", "y">>)) THEN Entry(props, <<"k", "e", "y">>)
                  ELSE _generateKey(tagName, props))

RECURSIVE _oldChildrenByKey(_, _, _, _)
\* the Map _reconcileChildren builds of the old children, from index on
_oldChildrenByKey(D, oldChildren, index, map) ==
  IF index >= Len(oldChildren) THEN map
  ELSE LET child == oldChildren[index + 1]
           key == IF ~Falsy(D.nodes[child]._jurisKey) THEN D.nodes[child]._jurisKey
                  ELSE Str(<<"a", "u", "t", "o", "-">> \o Digits(index))
       IN  _oldChildrenByKey(D, oldChildren, index + 1, KeyedSet(map, key, child))

\* the body of newChildren.forEach in _reconcileChildren; L holds the renderer
\* and the locals oldChildrenByKey, usedElements, newChildElements, fragment
_reconcileChild(L, newChild) ==
  IF Falsy(newChild) \/ JsTypeOf(newChild) # "object" THEN L
  ELSE
    LET tagName == ObjectKeys(newChild)[1]
        props == IF Falsy(Entry(newChild, tagName)) THEN Rec(<<>>) ELSE Entry(newChild, tagName)
        Reused(existingElement, key) ==
          [appendChild([Detach(L, existingElement) EXCEPT
                          !.D.nodes[existingElement] = _updateElementProperties(@, props)],
                       existingElement) EXCEPT
             !.newChildElements = Append(@, existingElement),
             !.usedElements = @ \cup {existingElement},
             !.oldChildrenByKey = KeyedDelete(@, key)]
        Rendered_(rendered_, made, key) ==
          IF ~_wouldCreateCircularReference(rendered_, L.D.parent, made.element)
          THEN [appendChild([rendered_ EXCEPT !.D.nodes[made.element]._jurisKey = key],
                            made.element) EXCEPT
                  !.newChildElements = Append(@, made.element)]
          ELSE rendered_
        Created(made, key) == Rendered_([L EXCEPT !.D = made.D], made, key)
        Matched(key) ==
          LET existingElement == KeyedGet(L.oldChildrenByKey, key)
          IN  IF /\ KeyedHas(L.oldChildrenByKey, key)
                 /\ existingElement \notin L.usedElements
                 /\ _canReuseElement(L.D.nodes[existingElement], tagName)
                 /\ ~_wouldCreateCircularReference(L, L.D.parent, existingElement)
              THEN Reused(existingElement, key)
              ELSE Created(DOMRenderer_render(L.D, newChild), key)
    IN  Matched(IF ~Falsy(Entry(props, <<"k", "e", "y">>)) THEN Entry(props, <<"k", "e", "y">>)
                ELSE _generateKey(tagName, props))

RECURSIVE _reconcileEach(_, _)
\* newChildren.forEach(...)
_reconcileEach(L, newChildren) ==
  IF newChildren = <<>> THEN L
  ELSE _reconcileEach(_reconcileChild(L, Head(newChildren)), Tail(newChildren))

RECURSIVE _recycleUnused(_, _)
\* oldChildrenByKey.forEach(unusedChild => ...), over the entries left
_recycleUnused(L, entries) ==
  IF entries = <<>> THEN L
  ELSE _recycleUnused(IF Head(entries).v \notin L.usedElements
                      THEN _recycleElement(L, Head(entries).v) ELSE L,
                      Tail(entries))

\* _reconcileChildren(parent, oldChildren, newChildren) for the mounted
\* parent: the renderer after it and the array it returns.
\* parent.appendChild(fragment) throws (HierarchyRequestError) when the
\* fragment holds the parent or an element that contains it; the catch then
\* appends, one by one, the children that pass the check and that the DOM
\* takes.
_reconcileChildren(D, oldChildren, newChildren) ==
  LET list == IF newChildren.t = "arr" THEN newChildren.items
              ELSE IF Falsy(newChildren) THEN <<>> ELSE <<newChildren>>
      Replaced(recycled) ==
        [D |-> IF \E i \in 1..Len(recycled.fragment) :
                    contains(recycled, recycled.fragment[i], recycled.D.parent)
               THEN [recycled.D EXCEPT !.childNodes =
                       SelectSeq(recycled.newChildElements, LAMBDA child :
                         /\ ~_wouldCreateCircularReference(recycled, recycled.D.parent, child)
                         /\ ~contains(recycled, child, recycled.D.parent))]
               ELSE [recycled.D EXCEPT !.childNodes = recycled.fragment],
         elements |-> recycled.newChildElements]
      Filled(filled) == Replaced(_recycleUnused(filled, filled.oldChildrenByKey))
  IN  Filled(_reconcileEach([D |-> D,
                             oldChildrenByKey |-> _oldChildrenByKey(D, oldChildren, 0, <<>>),
                             usedElements |-> {}, newChildElements |-> <<>>,
                             fragment |-> <<>>],
                            list))

\* _childrenEqual(oldChildren, newChildren): deepEquals of two lists of
\* vnodes whose properties are strings
_childrenEqual(oldChildren, newChildren) == oldChildren = newChildren

\* the updateChildren closure of _handleChildrenOptimized, called with what
\* the children function returns now
updateChildren(D, newChildren) ==
  LET Remembered(reconciled) ==
        [reconciled.D EXCEPT !.childElements = reconciled.elements,
                             !.lastChildrenState = newChildren]
  IN  IF newChildren # Str(<<"i", "g", "n", "o", "r", "e">>) /\ ~_childrenEqual(D.lastChildrenState, newChildren)
      THEN Remembered(_reconcileChildren(D, D.childElements, newChildren))
      ELSE D

\* _handleChildrenOptimized(element, children, subscriptions) for a children
\* function: _createReactiveUpdate calls updateChildren once, then the initial
\* children are reconciled against no old child
_handleChildrenOptimized(D, initialChildren) ==
  LET Remembered(reconciled) ==
        [reconciled.D EXCEPT !.childElements = reconciled.elements,
                             !.lastChildrenState = initialChildren]
  IN  Remembered(_reconcileChildren(updateChildren([D EXCEPT !.mounted = TRUE], initialChildren),
                                 <<>>, initialChildren))


\* ------------------------------------------------------------- the machine

\* the application sets the render mode (the renderMode of the configuration,
\* or juris.setRenderMode)
SetRenderMode(mode) ==
  /\ domRenderer' = setRenderMode(domRenderer, mode)
  /\ UNCHANGED lastUpdate
  /\ UNCHANGED storeVars
  /\ UNCHANGED <<stringRenderer, rendered>>

\* the parent element is created in batch mode with a children function that
\* returns initialChildren: _handleChildren takes _handleChildrenOptimized
Mount(initialChildren) ==
  /\ ~domRenderer.mounted
  /\ domRenderer.renderMode # <<"f", "i", "n", "e", "-", "g", "r", "a", "i", "n", "e", "d">>
  /\ domRenderer' = _handleChildrenOptimized(domRenderer, initialChildren)
  /\ lastUpdate' = NotUpdated
  /\ UNCHANGED storeVars
  /\ UNCHANGED <<stringRenderer, rendered>>

\* the state the children function reads has changed and the function now
\* returns newChildren: the subscription calls updateChildren
UpdateChildren(newChildren) ==
  /\ domRenderer.mounted
  /\ lastUpdate.n < MaxUpdates
  /\ domRenderer' = updateChildren(domRenderer, newChildren)
  /\ Len(domRenderer'.nodes) <= MaxNodes
  /\ lastUpdate' = [op |-> "updateChildren", n |-> lastUpdate.n + 1,
                    renderMode |-> domRenderer.renderMode,
                    oldChildren |-> domRenderer.lastChildrenState,
                    oldElements |-> domRenderer.childElements,
                    newChildren |-> newChildren]
  /\ UNCHANGED storeVars
  /\ UNCHANGED <<stringRenderer, rendered>>

\* the vnodes of the lists: {tag: {key, text, title}}, key and title optional
Tags == { <<"d", "i", "v">>, <<"s", "p", "a", "n">> }
Keys == { Undefined, Str(<<"a">>), Str(<<"b">>) }
Texts == { Str(<<"1">>), Str(<<"2">>) }

Optional(key, value) == IF value = Undefined THEN <<>> ELSE <<KV(key, value)>>

Child(tagName, key, text, title) ==
  El(tagName, Optional(<<"k", "e", "y">>, key) \o <<KV(<<"t", "e", "x", "t">>, text)>> \o Optional(<<"t", "i", "t", "l", "e">>, title))

\* {div: {key: 'a', id: 'x', text: '1'}}
Identified == El(<<"d", "i", "v">>, <<KV(<<"k", "e", "y">>, Str(<<"a">>)), KV(<<"i", "d">>, Str(<<"x">>)), KV(<<"t", "e", "x", "t">>, Str(<<"1">>))>>)

\* a title stands on the div of key 'a' only, and so does an id
Children ==
  { Child(tagName, key, text, Undefined) : tagName \in Tags, key \in Keys, text \in Texts }
  \cup { Child(<<"d", "i", "v">>, Str(<<"a">>), text, Str(<<"t">>)) : text \in Texts }
  \cup { Identified }

\* the vnodes that stand in the lists of two
Siblings ==
  { Child(<<"d", "i", "v">>, Str(<<"a">>), Str(<<"1">>), Undefined),
    Child(<<"d", "i", "v">>, Str(<<"b">>), Str(<<"1">>), Undefined),
    Child(<<"s", "p", "a", "n">>, Str(<<"a">>), Str(<<"1">>), Undefined) }

\* what the children function returns: no vnode, one vnode, or two siblings
ChildLists ==
  {Arr(<<>>)} \cup {Arr(<<c>>) : c \in Children}
              \cup {Arr(<<c, d>>) : c \in Siblings, d \in Siblings}

InitDom == Starts(New(EmptyObj, <<>>))

\* ------------------------------------------------------------ two parents
\* of one renderer

\* the renderer as it is when it works on the other parent: the parent and
\* the variables of the closure change places with D.other
Turned(D) ==
  LET left == SelectSeq(D.parentNode, LAMBDA e : e.v # D.other.parent)
      RECURSIVE Kept(_, _)
      Kept(map, elements) ==
        IF elements = <<>> THEN map
        ELSE Kept(KeyedSet(map, Head(elements), D.parent), Tail(elements))
  IN  [D EXCEPT
         !.parent = D.other.parent,
         !.childNodes = SelectSeq(D.other.childNodes, LAMBDA element :
                          /\ KeyedHas(D.parentNode, element)
                          /\ KeyedGet(D.parentNode, element) = D.other.parent),
         !.mounted = D.other.mounted,
         !.childElements = D.other.childElements,
         !.lastChildrenState = D.other.lastChildrenState,
         !.parentNode = Kept(left, D.childNodes),
         !.other = [parent |-> D.parent, childNodes |-> D.childNodes, mounted |-> D.mounted,
                    childElements |-> D.childElements,
                    lastChildrenState |-> D.lastChildrenState]]

\* the second parent element is created in batch mode with a children
\* function that returns initialChildren
MountOther(initialChildren) ==
  /\ domRenderer.mounted
  /\ ~domRenderer.other.mounted
  /\ domRenderer.renderMode # <<"f", "i", "n", "e", "-", "g", "r", "a", "i", "n", "e", "d">>
  /\ domRenderer' = Turned(_handleChildrenOptimized(Turned(domRenderer), initialChildren))
  /\ Len(domRenderer'.nodes) <= MaxNodes
  /\ lastUpdate' = NotUpdated
  /\ UNCHANGED storeVars
  /\ UNCHANGED <<stringRenderer, rendered>>

\* the state the children function of the second parent reads has changed:
\* its subscription calls its updateChildren
UpdateOther(newChildren) ==
  /\ domRenderer.other.mounted
  /\ lastUpdate.n < MaxUpdates
  /\ domRenderer' = Turned(updateChildren(Turned(domRenderer), newChildren))
  /\ Len(domRenderer'.nodes) <= MaxNodes
  /\ lastUpdate' = [op |-> "updateChildren", n |-> lastUpdate.n + 1,
                    renderMode |-> domRenderer.renderMode,
                    oldChildren |-> domRenderer.other.lastChildrenState,
                    oldElements |-> domRenderer.other.childElements,
                    newChildren |-> newChildren]
  /\ UNCHANGED storeVars
  /\ UNCHANGED <<stringRenderer, rendered>>

\* what the two children functions return: no vnode, or one div of key 'a'
\* or 'b'
PoolLists ==
  {Arr(<<>>)} \cup {Arr(<<Child(<<"d", "i", "v">>, key, text, Undefined)>>) :
                      key \in {Str(<<"a">>), Str(<<"b">>)}, text \in Texts}

NextPool ==
  \/ \E mode \in { <<"f", "i", "n", "e", "-", "g", "r", "a", "i", "n", "e", "d">>, <<"b", "a", "t", "c", "h">> } : SetRenderMode(mode)
  \/ \E initialChildren \in PoolLists : Mount(initialChildren)
  \/ \E initialChildren \in PoolLists : MountOther(initialChildren)
  \/ \E newChildren \in PoolLists : UpdateChildren(newChildren)
  \/ \E newChildren \in PoolLists : UpdateOther(newChildren)

SpecPool == InitDom /\ [][NextPool]_vars

NextDom ==
  \/ \E mode \in { <<"f", "i", "n", "e", "-", "g", "r", "a", "i", "n", "e", "d">>, <<"b", "a", "t", "c", "h">> } : SetRenderMode(mode)
  \/ \E initialChildren \in ChildLists : Mount(initialChildren)
  \/ \E newChildren \in ChildLists : UpdateChildren(newChildren)

SpecDom == InitDom /\ [][NextDom]_vars

\* ------------------------------------------------------------ the renderer
\* with a keyed parent inside a keyed element

\* {div: {key: 'g', children: [{div: {key: 'p', children: () => ...}}]}} is
\* rendered in batch mode: render creates the outer element and caches it
\* under 'g', its static children are reconciled, which renders the parent,
\* cached under 'p', and appends it; the parent's children function returns
\* no child yet
MountNested ==
  LET Mounted(outer, inner) ==
        _handleChildrenOptimized(
          [inner.D EXCEPT !.parent = inner.element,
                          !.parentNode = KeyedSet(@, inner.element, outer.element)],
          Arr(<<>>))
      Outer(outer) ==
        Mounted(outer, DOMRenderer_render(outer.D, El(<<"d", "i", "v">>, <<KV(<<"k", "e", "y">>, Str(<<"p">>))>>)))
  IN  /\ ~domRenderer.mounted
      /\ domRenderer.renderMode # <<"f", "i", "n", "e", "-", "g", "r", "a", "i", "n", "e", "d">>
      /\ domRenderer' = Outer(DOMRenderer_render(domRenderer, El(<<"d", "i", "v">>, <<KV(<<"k", "e", "y">>, Str(<<"g">>))>>)))
      /\ lastUpdate' = NotUpdated
      /\ UNCHANGED storeVars
      /\ UNCHANGED <<stringRenderer, rendered>>

\* the children the parent's function returns: one with the parent's key, one
\* with the key of the element around it, one with the parent's key and
\* another tag, one with a key of its own and one without a key
NestedChildren ==
  { Child(<<"d", "i", "v">>, Str(<<"p">>), Str(<<"1">>), Undefined),
    Child(<<"d", "i", "v">>, Str(<<"g">>), Str(<<"1">>), Undefined),
    Child(<<"s", "p", "a", "n">>, Str(<<"p">>), Str(<<"1">>), Undefined),
    Child(<<"d", "i", "v">>, Str(<<"a">>), Str(<<"1">>), Undefined),
    Child(<<"d", "i", "v">>, Undefined, Str(<<"1">>), Undefined) }

NestedChildLists ==
  {Arr(<<>>)} \cup {Arr(<<c>>) : c \in NestedChildren}
              \cup {Arr(<<c, d>>) : c \in NestedChildren, d \in NestedChildren}

InitTree == Starts(New(EmptyObj, <<>>))

NextTree ==
  \/ \E mode \in { <<"f", "i", "n", "e", "-", "g", "r", "a", "i", "n", "e", "d">>, <<"b", "a", "t", "c", "h">> } : SetRenderMode(mode)
  \/ MountNested
  \/ \E newChildren \in NestedChildLists : UpdateChildren(newChildren)

SpecTree == InitTree /\ [][NextTree]_vars

\* ------------------------------------------------------------ the renderer
\* with children that have a click handler

\* the application assigns domRenderer.recyclePoolSize: what a pool that is
\* full does shows with a pool of one element as it does with one of 100
AssignRecyclePoolSize(size) ==
  /\ ~domRenderer.mounted
  /\ domRenderer' = [domRenderer EXCEPT !.recyclePoolSize = size]
  /\ UNCHANGED lastUpdate
  /\ UNCHANGED storeVars
  /\ UNCHANGED <<stringRenderer, rendered>>

\* {tag: {key, onclick: () => {}}}
Clickable(tagName, key) ==
  El(tagName, <<KV(<<"k", "e", "y">>, key), KV(<<"o", "n", "c", "l", "i", "c", "k">>, Fn(Undefined))>>)

ClickableChildren ==
  { Clickable(<<"d", "i", "v">>, Str(<<"a">>)), Clickable(<<"d", "i", "v">>, Str(<<"b">>)), Clickable(<<"s", "p", "a", "n">>, Str(<<"c">>)),
    Child(<<"d", "i", "v">>, Str(<<"d">>), Str(<<"1">>), Undefined) }

\* no child, one child, or two children of different keys
ClickableLists ==
  {Arr(<<>>)} \cup {Arr(<<c>>) : c \in ClickableChildren}
              \cup {Arr(<<pair[1], pair[2]>>) :
                      pair \in {two \in ClickableChildren \X ClickableChildren : two[1] # two[2]}}

InitListen == Starts(New(EmptyObj, <<>>))

NextListen ==
  \/ \E mode \in { <<"f", "i", "n", "e", "-", "g", "r", "a", "i", "n", "e", "d">>, <<"b", "a", "t", "c", "h">> } : SetRenderMode(mode)
  \/ \E size \in {1, recyclePoolSize} : AssignRecyclePoolSize(size)
  \/ \E initialChildren \in ClickableLists : Mount(initialChildren)
  \/ \E newChildren \in ClickableLists : UpdateChildren(newChildren)

SpecListen == InitListen /\ [][NextListen]_vars

\* ------------------------------------------------------------ the renderer
\* and the store together: reactive text and reactive children

\* getState(path) was called by the function of the closure cb (not something
\* the code prints: a ghost entry)
EvRead(cb, path) == [e |-> "read", cb |-> cb, path |-> path]

\* A function of the application that reads the state.  The model knows four:
\*   "cond"   () => getState('a') ? getState('b') : ''
\*   "readB"  () => getState('b')
\*   "kids"   () => getState('a') ? [{span: {text: cond}}] : []
\*   "late"   () => { getState('a');
\*                    juris.objectToHtml({span: {text: readB}});
\*                    return getState('a.b') }
\*   "fetch"  () => fetchFor(getState('a')), which returns a new thenable at
\*            each call, one that resolves to the value read
Reads(body) == [t |-> "fn", throws |-> FALSE, ret |-> Undefined, body |-> body]

\* the store and the renderer, for the operators that thread both through a call
Both(M, D) == [M |-> M, D |-> D]

\* a call returns: the two after it and the value returned
Returned(S, value) == [S |-> S, value |-> value]

\* getState(path) in the function of the closure cb
ReadState(S, cb, path) ==
  [S EXCEPT !.M = Logged(getStateEffect(@, path), EvRead(cb, path))]

\* element.textContent = value
TextOf(value) == IF value = Null THEN <<>> ELSE JsString(value)

\* element.children, in document order, of an element other than the mounted
\* parent
childrenIn(D, element) ==
  LET entries == SelectSeq(D.parentNode, LAMBDA en : en.v = element)
  IN  [i \in 1..Len(entries) |-> entries[i].k]

\* element.appendChild(child)
Attached(D, child, element) ==
  [D EXCEPT !.parentNode = Append(KeyedDelete(@, child), [k |-> child, v |-> element])]

\* the function subscribeInternal(path, callback) returned
Handle(path, callback) == [path |-> path, callback |-> callback]

RECURSIVE unsubscribeEach(_, _)
\* data.subscriptions.forEach(unsubscribe => unsubscribe())
unsubscribeEach(subs, handles) ==
  IF handles = <<>> THEN subs
  ELSE unsubscribeEach(MapRemove(subs, Head(handles).path, Head(handles).callback),
                       Tail(handles))

RECURSIVE subscribeEach(_, _, _)
\* dependencies.forEach(path => subscribeInternal(path, updateFn))
subscribeEach(M, dependencies, callback) ==
  IF dependencies = <<>> THEN M
  ELSE subscribeEach(subscribeInternal(M, Head(dependencies), callback),
                     Tail(dependencies), callback)

\* the Set a caller installed as currentTracking when shadowed had depth
\* entries, as it is now
TrackingSet(M, depth) ==
  IF Len(M.currentTracking.shadowed) > depth
  THEN M.currentTracking.shadowed[depth + 1]
  ELSE M.currentTracking.deps

\* _isPromiseLike(value)
_isPromiseLike(value) == ~Falsy(value) /\ value.t = "then"

RECURSIVE renderElement(_, _)
RECURSIVE callFunction(_, _, _)
RECURSIVE callUpdateFn(_, _)
RECURSIVE _createReactiveUpdate(_, _)
RECURSIVE _setupEach(_, _, _, _, _)
RECURSIVE _updateChildrenFineGrained(_, _, _)
RECURSIVE _reconcileStatic(_, _, _)
RECURSIVE appendEach(_, _, _)
RECURSIVE cleanupElement(_, _)
RECURSIVE cleanupEach(_, _)

\* the application's function fn runs for the closure cb
callFunction(S, fn, cb) ==
  LET ReadB(read) == Returned(ReadState(read, cb, P_b), getState(read.M, P_b, Null))
      ReadAB(made) == Returned(ReadState(made.S, cb, P_ab), getState(made.S.M, P_ab, Null))
      Cond(read) ==
        IF ~Falsy(getState(read.M, P_a, Null)) THEN ReadB(read) ELSE Returned(read, Str(<<>>))
      Kids(read) ==
        Returned(read, IF ~Falsy(getState(read.M, P_a, Null))
                       THEN Arr(<<El(<<"s", "p", "a", "n">>, <<KV(<<"t", "e", "x", "t">>, Reads("cond"))>>)>>)
                       ELSE Arr(<<>>))
      Late(read) == ReadAB(renderElement(read, El(<<"s", "p", "a", "n">>, <<KV(<<"t", "e", "x", "t">>, Reads("readB"))>>)))
  IN  CASE fn.body = "cond" -> Cond(ReadState(S, cb, P_a))
        [] fn.body = "readB" -> ReadB(S)
        [] fn.body = "kids" -> Kids(ReadState(S, cb, P_a))
        [] fn.body = "late" -> Late(ReadState(S, cb, P_a))
        [] fn.body = "fetch" ->
             Returned(ReadState(S, cb, P_a), Resolved(getState(S.M, P_a, Null)))

\* the closure cb runs: updateText of _handleReactiveText, or updateChildren of
\* _handleReactiveChildren (no function of the model throws, and only a text
\* function returns a thenable).  For a thenable the closure registers a then
\* callback, which waits in D.pending with the name of the closure.
callUpdateFn(S, cb) ==
  LET closure == KeyedGet(S.D.closures, cb)
      Promised(r) ==
        LET run == <<[k |-> <<"t", "e", "x", "t">>, id |-> Len(r.S.D.thenables) + 1]>>
        IN  [r.S EXCEPT !.D.thenables = Append(@, [value |-> r.value, settled |-> FALSE]),
                        !.D.pending = Append(@, [element |-> closure.element,
                                                 asyncProps |-> run, cb |-> cb]),
                        !.D.built = Append(@, [k |-> closure.element, v |-> run])]
      Kept(after, value) ==
        [after EXCEPT !.D.closures =
           KeyedSet(@, cb, [closure EXCEPT !.isInitialized = TRUE, !.last = value])]
      Text(r) ==
        IF _isPromiseLike(r.value) THEN Promised(r)
        ELSE IF ~closure.isInitialized \/ r.value # closure.last
        THEN Kept([r.S EXCEPT !.D.nodes[closure.element].textContent = TextOf(r.value)], r.value)
        ELSE r.S
      Children_(r) ==
        IF r.value # Str(<<"i", "g", "n", "o", "r", "e">>) /\ (~closure.isInitialized \/ r.value # closure.last)
        THEN Kept(_updateChildrenFineGrained(r.S, closure.element, r.value), r.value)
        ELSE r.S
  IN  IF closure.kind = "text" THEN Text(callFunction(S, closure.fn, cb))
      ELSE Children_(callFunction(S, closure.fn, cb))

\* _createReactiveUpdate(element, updateFn, subscriptions): the two after it
\* and the handles it pushes.  startTracking() has made the new Set the
\* currentTracking before originalTracking is read, so that the finally leaves
\* the new Set in place.
_createReactiveUpdate(S, cb) ==
  LET prev == S.M.currentTracking
      shadowed == IF prev.on THEN Append(prev.shadowed, prev.deps) ELSE prev.shadowed
      Subscribed(ran, dependencies) ==
        [S |-> [ran EXCEPT !.M =
                  subscribeEach([@ EXCEPT !.currentTracking =
                                   [on |-> TRUE, deps |-> dependencies, shadowed |-> shadowed]],
                                dependencies, cb)],
         handles |-> [i \in 1..Len(dependencies) |-> Handle(dependencies[i], cb)]]
      Ran(ran) == Subscribed(ran, TrackingSet(ran.M, Len(shadowed)))
  IN  Ran(callUpdateFn([S EXCEPT !.M.currentTracking =
                          [on |-> TRUE, deps |-> <<>>, shadowed |-> shadowed]], cb))

\* the forEach of _setupSyncElement, and that of _processProperties, over the
\* keys: the two after it and the subscriptions array
_setupEach(S, element, props, keys, subscriptions) ==
  IF keys = <<>> THEN [S |-> S, subscriptions |-> subscriptions]
  ELSE
    LET key == Head(keys)
        value == Entry(props, key)
        Rest(done) == _setupEach(done.S, element, props, Tail(keys), done.subscriptions)
        Static(node) ==
          [S |-> [S EXCEPT !.D.nodes[element] = node], subscriptions |-> subscriptions]
        Registered(created) ==
          [S |-> created.S, subscriptions |-> subscriptions \o created.handles]
        Reactive(kind, cb) ==
          Registered(_createReactiveUpdate(
            [S EXCEPT !.D.closures =
               KeyedSet(@, cb, [element |-> element, kind |-> kind, fn |-> value,
                                isInitialized |-> FALSE, last |-> Null])],
            cb))
    IN  Rest(CASE key = <<"c", "h", "i", "l", "d", "r", "e", "n">> /\ JsTypeOf(value) = "function" ->
                    Reactive("children", "children" \o ToString(element))
               [] key = <<"c", "h", "i", "l", "d", "r", "e", "n">> /\ JsTypeOf(value) # "function" ->
                    [S |-> IF S.D.renderMode = <<"f", "i", "n", "e", "-", "g", "r", "a", "i", "n", "e", "d">>
                           THEN _updateChildrenFineGrained(S, element, value)
                           ELSE _reconcileStatic(S, element, value.items),
                     subscriptions |-> subscriptions]
               [] key = <<"t", "e", "x", "t">> /\ JsTypeOf(value) = "function" ->
                    Reactive("text", "text" \o ToString(element))
               [] key = <<"t", "e", "x", "t">> /\ JsTypeOf(value) # "function" ->
                    Static(_handleText(S.D.nodes[element], value))
               [] key = <<"k", "e", "y">> -> [S |-> S, subscriptions |-> subscriptions]
               [] OTHER ->
                    IF StartsWith(key, <<"o", "n">>)
                    THEN Static(_handleEvent(S.D.nodes[element], key, value))
                    ELSE Static(_setStaticAttribute(S.D.nodes[element], key, value)))

\* _hasAsyncProps(props)
_hasAsyncProps(props) ==
  \E i \in 1..Len(props.entries) :
    ~StartsWith(props.entries[i].k, <<"o", "n">>) /\ _isPromiseLike(props.entries[i].v)

RECURSIVE ClassTokens(_, _)
\* the tokens of a class attribute
ClassTokens(s, cur) ==
  IF s = <<>> THEN (IF cur = <<>> THEN <<>> ELSE <<cur>>)
  ELSE IF Head(s) = " "
       THEN (IF cur = <<>> THEN <<>> ELSE <<cur>>) \o ClassTokens(Tail(s), <<>>)
       ELSE ClassTokens(Tail(s), Append(cur, Head(s)))

HasClass(element, token) ==
  \E i \in 1..Len(ClassTokens(element.className, <<>>)) :
    ClassTokens(element.className, <<>>)[i] = token

\* element.classList.add(token)
classListAdd(element, token) ==
  [element EXCEPT !.className =
     JoinWith(IF HasClass(element, token) THEN ClassTokens(@, <<>>)
              ELSE Append(ClassTokens(@, <<>>), token), <<" ">>)]

\* element.classList.remove(token)
classListRemove(element, token) ==
  [element EXCEPT !.className =
     JoinWith(SelectSeq(ClassTokens(@, <<>>), LAMBDA t : t # token), <<" ">>)]

\* _setPlaceholder(element, key), for the keys text and className and the
\* data- and aria- attributes
_setPlaceholder(element, key) ==
  IF key = <<"t", "e", "x", "t">>
  THEN classListAdd([element EXCEPT !.textContent = <<".", ".", ".">>], <<"j", "u", "r", "i", "s", "-", "a", "s", "y", "n", "c", "-", "l", "o", "a", "d", "i", "n", "g">>)
  ELSE IF key = <<"c", "l", "a", "s", "s", "N", "a", "m", "e">> THEN classListAdd(element, <<"j", "u", "r", "i", "s", "-", "a", "s", "y", "n", "c", "-", "l", "o", "a", "d", "i", "n", "g">>)
  ELSE IF StartsWith(key, <<"d", "a", "t", "a", "-">>) \/ StartsWith(key, <<"a", "r", "i", "a", "-">>)
       THEN [element EXCEPT !.attributes = KeyedSet(@, key, <<"l", "o", "a", "d", "i", "n", "g">>)]
  ELSE element

\* { __asyncError: error }
AsyncError(message) == [t |-> "asyncError", message |-> message]

\* the milliseconds _resolveAsyncProps takes a cached result for
asyncCacheTtl == 5000

RECURSIVE _applyResolvedProps(_, _)
\* _applyResolvedProps(element, resolvedProps, subscriptions), for the keys
\* text and className and the data- and aria- attributes
_applyResolvedProps(element, resolvedProps) ==
  IF resolvedProps = <<>> THEN element
  ELSE
    LET key == Head(resolvedProps).k
        value == Head(resolvedProps).v
        _setErrorState(el) ==
          IF key = <<"t", "e", "x", "t">>
          THEN [classListAdd(el, <<"j", "u", "r", "i", "s", "-", "a", "s", "y", "n", "c", "-", "e", "r", "r", "o", "r">>)
                  EXCEPT !.textContent = <<"E", "r", "r", "o", "r", ":", " ">> \o value.message]
          ELSE classListAdd(el, <<"j", "u", "r", "i", "s", "-", "a", "s", "y", "n", "c", "-", "e", "r", "r", "o", "r">>)
    IN  _applyResolvedProps(
          IF value.t = "asyncError" /\ value.message # <<>> THEN _setErrorState(element)
          ELSE IF key = <<"t", "e", "x", "t">> THEN [element EXCEPT !.textContent = TextOf(value)]
          ELSE _setStaticAttribute(element, key, value),
          Tail(resolvedProps))

\* _generateAsyncCacheKey(asyncProps): every value is a thenable, which the
\* replacer turns into '[Promise]'
_generateAsyncCacheKey(asyncProps) ==
  JsonStringify(Rec([i \in 1..Len(asyncProps) |->
                       KV(asyncProps[i].k, Str(<<"[", "P", "r", "o", "m", "i", "s", "e", "]">>))]))

\* _resolveAsyncProps(element, asyncProps, subscriptions), up to the call of
\* Promise.all(...).then
_resolveAsyncProps(D, element, asyncProps) ==
  LET cacheKey == _generateAsyncCacheKey(asyncProps)
      cached == KeyedGet(D.asyncCache, cacheKey)
  IN  IF KeyedHas(D.asyncCache, cacheKey) /\ D.now - cached.timestamp < asyncCacheTtl
      THEN [D EXCEPT !.nodes[element] =
              _applyResolvedProps(classListRemove(@, <<"j", "u", "r", "i", "s", "-", "a", "s", "y", "n", "c", "-", "l", "o", "a", "d", "i", "n", "g">>), cached.props)]
      ELSE [D EXCEPT !.pending = Append(@, [element |-> element, asyncProps |-> asyncProps])]

\* the then and catch callbacks of promisify(result) in updateText, for the
\* thenable of one run of the closure job.cb
_resolveReactiveText(D, job) ==
  LET closure == KeyedGet(D.closures, job.cb)
      thenable == D.thenables[job.asyncProps[1].id].value
      resolvedText == thenable.v
  IN  IF thenable.fate # "resolved"
      THEN [D EXCEPT !.nodes[closure.element].textContent = <<"E", "r", "r", "o", "r", ":", " ">> \o ErrorMessage]
      ELSE IF ~closure.isInitialized \/ resolvedText # closure.last
      THEN [D EXCEPT !.nodes[closure.element].textContent = TextOf(resolvedText),
                     !.closures = KeyedSet(@, job.cb, [closure EXCEPT !.isInitialized = TRUE,
                                                                      !.last = resolvedText])]
      ELSE D

\* the callback of Promise.all(resolvePromises).then in _resolveAsyncProps
Resolve(D, job) ==
  LET settled(id) ==
        IF D.thenables[id].value.fate = "resolved" THEN D.thenables[id].value.v
        ELSE AsyncError(ErrorMessage)
      resolvedProps ==
        [i \in 1..Len(job.asyncProps) |->
           KV(job.asyncProps[i].k, settled(job.asyncProps[i].id))]
  IN  IF "cb" \in DOMAIN job THEN _resolveReactiveText(D, job)
      ELSE
      [D EXCEPT !.asyncCache =
                   KeyedSet(@, _generateAsyncCacheKey(job.asyncProps),
                            [props |-> resolvedProps, timestamp |-> D.now]),
                !.nodes[job.element] =
                   _applyResolvedProps(classListRemove(@, <<"j", "u", "r", "i", "s", "-", "a", "s", "y", "n", "c", "-", "l", "o", "a", "d", "i", "n", "g">>),
                                       resolvedProps)]

RECURSIVE _setupFirst(_, _)
\* the first forEach of _setupAsyncElement: the listeners and the placeholders
_setupFirst(element, entries) ==
  IF entries = <<>> THEN element
  ELSE _setupFirst(IF StartsWith(Head(entries).k, <<"o", "n">>)
                   THEN _handleEvent(element, Head(entries).k, Head(entries).v)
                   ELSE IF _isPromiseLike(Head(entries).v)
                        THEN _setPlaceholder(element, Head(entries).k)
                        ELSE element,
                   Tail(entries))

\* _setupAsyncElement(element, props, subscriptions, eventListeners): the two
\* after it and the subscriptions array.  The thenables of props are entered
\* in the renderer's list of thenables.
_setupAsyncElement(S, element, props) ==
  LET plain == SelectSeq(props.entries, LAMBDA en : ~StartsWith(en.k, <<"o", "n">>))
      syncProps == Rec(SelectSeq(plain, LAMBDA en : ~_isPromiseLike(en.v)))
      thenables == SelectSeq(plain, LAMBDA en : _isPromiseLike(en.v))
      asyncProps == [i \in 1..Len(thenables) |->
                       [k |-> thenables[i].k, id |-> Len(S.D.thenables) + i]]
      Resolving(done) ==
        [S |-> [done.S EXCEPT !.D = _resolveAsyncProps(@, element, asyncProps)],
         subscriptions |-> done.subscriptions]
  IN  Resolving(_setupEach(
        [S EXCEPT !.D.nodes[element] = _setupFirst(@, props.entries),
                  !.D.thenables = @ \o [i \in 1..Len(thenables) |->
                                          [value |-> thenables[i].v, settled |-> FALSE]],
                  !.D.built = Append(@, [k |-> element, v |-> asyncProps])],
        element, syncProps, ObjectKeys(syncProps), <<>>))

\* render(vnode), for a vnode that is one element and no registered component;
\* in batch mode none of its properties is a thenable and its children are no
\* function
renderElement(S, vnode) ==
  LET tagName == ObjectKeys(vnode)[1]
      props == IF Falsy(Entry(vnode, tagName)) THEN Rec(<<>>) ELSE Entry(vnode, tagName)
      Finished(done, element, before) ==
        [S |-> [done.S EXCEPT !.D = BoundTo(@, element, before, done.subscriptions)],
         element |-> element]
      Created(with, element) ==
        Finished(IF with.D.renderMode = <<"f", "i", "n", "e", "-", "g", "r", "a", "i", "n", "e", "d">> /\ _hasAsyncProps(props)
                 THEN _setupAsyncElement(with, element, props)
                 ELSE _setupEach(with, element, props, ObjectKeys(props), <<>>),
                 element, with.D.nodes[element].listeners)
      Cached(made, key) ==
        Created([S EXCEPT !.D = [made.D EXCEPT !.elementCache = KeyedSet(@, key, made.element),
                                               !.nodes[made.element]._jurisKey = key]],
                made.element)
      Recycled(recycled, key) ==
        Cached(IF recycled.element # 0 THEN recycled
               ELSE Made([S.D EXCEPT !.nodes = Append(@, createElement(tagName))],
                         Len(S.D.nodes) + 1),
               key)
      Looked(key) ==
        IF /\ KeyedHas(S.D.elementCache, key)
           /\ _canReuseElement(S.D.nodes[KeyedGet(S.D.elementCache, key)], tagName)
        THEN [S |-> [S EXCEPT !.D.nodes[KeyedGet(S.D.elementCache, key)] =
                       _updateElementProperties(@, props)],
              element |-> KeyedGet(S.D.elementCache, key)]
        ELSE Recycled(_getRecycledElement(S.D, tagName), key)
  IN  IF S.D.renderMode = <<"f", "i", "n", "e", "-", "g", "r", "a", "i", "n", "e", "d">>
      THEN Created([S EXCEPT !.D.nodes = Append(@, createElement(tagName))],
                   Len(S.D.nodes) + 1)
      ELSE Looked(IF ~Falsy(Entry(props, <<"k", "e", "y">>)) THEN Entry(props, <<"k", "e", "y">>)
                  ELSE _generateKey(tagName, props))

\* children.forEach(child => fragment.appendChild(this.render(child))), then
\* element.appendChild(fragment)
appendEach(S, element, list) ==
  IF list = <<>> THEN S
  ELSE LET Appended(made) == [made.S EXCEPT !.D = Attached(@, made.element, element)]
       IN  appendEach(Appended(renderElement(S, Head(list))), element, Tail(list))

\* _reconcileChildren(parent, [], children) for the static children of an
\* element made in batch mode
_reconcileStatic(S, parent, list) ==
  IF list = <<>> THEN S
  ELSE
    LET newChild == Head(list)
        tagName == ObjectKeys(newChild)[1]
        props == IF Falsy(Entry(newChild, tagName)) THEN Rec(<<>>) ELSE Entry(newChild, tagName)
        key == IF ~Falsy(Entry(props, <<"k", "e", "y">>)) THEN Entry(props, <<"k", "e", "y">>)
               ELSE _generateKey(tagName, props)
        Appended(made) ==
          IF ~_wouldCreateCircularReference([D |-> made.S.D, fragment |-> <<>>], parent,
                                            made.element)
          THEN [made.S EXCEPT !.D = Attached([@ EXCEPT !.nodes[made.element]._jurisKey = key],
                                             made.element, parent)]
          ELSE made.S
    IN  _reconcileStatic(Appended(renderElement(S, newChild)), parent, Tail(list))

\* _updateChildrenFineGrained(element, children)
_updateChildrenFineGrained(S, element, children) ==
  IF children = Str(<<"i", "g", "n", "o", "r", "e">>) THEN S
  ELSE LET list == IF children.t = "arr" THEN children.items
                   ELSE IF Falsy(children) THEN <<>> ELSE <<children>>
           Emptied(cleaned) ==
             [cleaned EXCEPT !.D.parentNode = SelectSeq(@, LAMBDA en : en.v # element),
                             !.D.nodes[element].textContent = <<>>]
       IN  appendEach(Emptied(cleanupEach(S, childrenIn(S.D, element))), element, list)

\* DOMRenderer.cleanup(element) up to its loop over element.children, for an
\* element that is no component and no placeholder
cleanupAlone(S, element) ==
  LET Uncached(torn) ==
        IF ~Falsy(torn.D.nodes[element]._jurisKey)
        THEN [torn EXCEPT !.D.elementCache = KeyedDelete(@, torn.D.nodes[element]._jurisKey)]
        ELSE torn
      TornDown(data) ==
        [S EXCEPT !.M.subscribers = unsubscribeEach(@, data.subscriptions),
                  !.D.called = @ \o data.subscriptions,
                  !.D.nodes[element].listeners = removeEventListeners(@, data.eventListeners),
                  !.D.subscriptions = KeyedDelete(@, element)]
      Marked(uncached) == [uncached EXCEPT !.D.cleanedUp = @ \cup {element}]
  IN  Marked(Uncached(IF KeyedHas(S.D.subscriptions, element)
                      THEN TornDown(KeyedGet(S.D.subscriptions, element))
                      ELSE S))

\* DOMRenderer.cleanup(element)
cleanupElement(S, element) ==
  cleanupEach(cleanupAlone(S, element), childrenIn(S.D, element))

\* children.forEach(child => this.cleanup(child))
cleanupEach(S, elements) ==
  IF elements = <<>> THEN S
  ELSE cleanupEach(cleanupElement(S, Head(elements)), Tail(elements))

\* the body of subscribersCopy.forEach in _triggerPathSubscribers for a closure
\* of the renderer
InvokeBound(S, it) ==
  LET oldTracking == S.M.currentTracking
      Ran(ran) ==
        [ran EXCEPT !.M = Resubscribe([@ EXCEPT !.currentTracking = oldTracking],
                                      TrackingSet(ran.M, 0), it.cb)]
  IN  Ran(callUpdateFn([S EXCEPT !.M = Logged([@ EXCEPT !.currentTracking = NewTracking],
                                             EvInt(it.cb, it.at, it.path))],
                       it.cb))

RECURSIVE runToEnd(_)
\* the call runs to its end, closure after closure
runToEnd(S) ==
  IF S.M.todo = <<>> THEN S
  ELSE LET Settled(ran) == [ran EXCEPT !.M = Settle(@)]
       IN  runToEnd(Settled(InvokeBound([S EXCEPT !.M.todo = Tail(@)], Head(S.M.todo))))

\* no caller holds a Set any more
Released(M) == [M EXCEPT !.currentTracking.shadowed = <<>>]

\* the renderer when a call of the application begins: no handle has been
\* called in it
Entered == [domRenderer EXCEPT !.called = <<>>]

\* the application renders vnode (juris.objectToHtml(vnode))
RenderBound(vnode) ==
  LET Done(made) ==
        /\ Len(made.S.D.nodes) <= MaxNodes
        /\ StoreBecomes(Released(made.S.M))
        /\ domRenderer' = made.S.D
        /\ lastUpdate' = [op |-> "render", n |-> lastUpdate.n + 1, element |-> made.element]
  IN  /\ Idle
      /\ lastUpdate.n < MaxCalls
      /\ domRenderer.renderMode # <<"f", "i", "n", "e", "-", "g", "r", "a", "i", "n", "e", "d">> =>
           JsTypeOf(Entry(Entry(vnode, ObjectKeys(vnode)[1]), <<"c", "h", "i", "l", "d", "r", "e", "n">>)) # "function"
      /\ Done(renderElement(Both(Fresh, Entered), vnode))
      /\ lastOp' = Op("render", <<>>, Undefined)
      /\ nsubs' = nsubs
      /\ UNCHANGED <<stringRenderer, rendered>>

\* the application calls setState(path, value)
SetStateBound(path, value) ==
  LET Done(S) ==
        /\ Len(S.D.nodes) <= MaxNodes
        /\ StoreBecomes(Released(S.M))
        /\ domRenderer' = S.D
  IN  /\ Idle
      /\ lastUpdate.n < MaxCalls
      /\ Done(runToEnd(Both(Settle(setState(Fresh, path, value)), Entered)))
      /\ lastOp' = Op("setState", path, value)
      /\ nsubs' = nsubs
      /\ lastUpdate' = [op |-> "setState", n |-> lastUpdate.n + 1]
      /\ UNCHANGED <<stringRenderer, rendered>>

\* the elements under element, itself included
RECURSIVE Subtree(_, _)
Subtree(D, element) ==
  {element} \cup UNION { Subtree(D, childrenIn(D, element)[i]) :
                           i \in 1..Len(childrenIn(D, element)) }

\* the application calls juris.domRenderer.cleanup(element) for an element that
\* has no parent.  The record keeps what the elements under it had before.
CleanupBound(element) ==
  LET Done(S) ==
        /\ StoreBecomes(Released(S.M))
        /\ domRenderer' = S.D
  IN  /\ Idle
      /\ lastUpdate.n < MaxCalls
      /\ element \in 1..Len(domRenderer.nodes)
      /\ ~KeyedHas(domRenderer.parentNode, element)
      /\ Done(cleanupElement(Both(Fresh, Entered), element))
      /\ lastUpdate' =
           [op |-> "cleanup", n |-> lastUpdate.n + 1, element |-> element,
            under |-> Subtree(domRenderer, element),
            subscriptions |-> domRenderer.subscriptions]
      /\ lastOp' = Op("cleanup", <<>>, Undefined)
      /\ nsubs' = nsubs
      /\ UNCHANGED <<stringRenderer, rendered>>

\* {span: {text: cond}}, {div: {children: kids}}, {div: {text: late}} and
\* {div: {key: 'g', onclick: () => {}, children: [{span: {key: 'c', text: cond}}]}}
BoundVnodes ==
  { El(<<"s", "p", "a", "n">>, <<KV(<<"t", "e", "x", "t">>, Reads("cond"))>>),
    El(<<"d", "i", "v">>, <<KV(<<"c", "h", "i", "l", "d", "r", "e", "n">>, Reads("kids"))>>),
    El(<<"d", "i", "v">>, <<KV(<<"t", "e", "x", "t">>, Reads("late"))>>),
    El(<<"d", "i", "v">>, <<KV(<<"k", "e", "y">>, Str(<<"g">>)), KV(<<"o", "n", "c", "l", "i", "c", "k">>, Fn(Undefined)),
               KV(<<"c", "h", "i", "l", "d", "r", "e", "n">>, Arr(<<El(<<"s", "p", "a", "n">>, <<KV(<<"k", "e", "y">>, Str(<<"c">>)),
                                                    KV(<<"t", "e", "x", "t">>, Reads("cond"))>>)>>))>>) }

\* the calls of setState the application makes: 0 and 1 at 'a', 1 at 'b'
BoundWrites == {<<P_a, Num(0)>>, <<P_a, Num(1)>>, <<P_b, Num(1)>>}

InitBound == Starts(New(EmptyObj, <<>>))

NextBound ==
  \/ \E mode \in { <<"f", "i", "n", "e", "-", "g", "r", "a", "i", "n", "e", "d">>, <<"b", "a", "t", "c", "h">> } : SetRenderMode(mode)
  \/ \E vnode \in BoundVnodes : RenderBound(vnode)
  \/ \E w \in BoundWrites : SetStateBound(w[1], w[2])
  \/ \E element \in 1..MaxNodes : CleanupBound(element)

SpecBound == InitBound /\ [][NextBound]_vars

\* ------------------------------------------------------------ properties
\* that are thenables

\* the clock stops here
MaxClock == 5000

\* the clock advances
Elapse(ms) ==
  /\ domRenderer.now + ms <= MaxClock
  /\ domRenderer' = [domRenderer EXCEPT !.now = @ + ms]
  /\ UNCHANGED lastUpdate
  /\ UNCHANGED storeVars
  /\ UNCHANGED <<stringRenderer, rendered>>

\* the pending callbacks of Promise.all none of whose thenables is unsettled
Ready(D) ==
  SelectSeq(D.pending,
            LAMBDA job : \A i \in 1..Len(job.asyncProps) :
                           D.thenables[job.asyncProps[i].id].settled)

RECURSIVE ResolveEach(_, _)
ResolveEach(D, jobs) ==
  IF jobs = <<>> THEN D ELSE ResolveEach(Resolve(D, Head(jobs)), Tail(jobs))

\* the thenable id settles, and the microtasks run that wait for it
SettleThenable(id) ==
  LET Resolved_(D) ==
        [ResolveEach(D, Ready(D)) EXCEPT
           !.pending = SelectSeq(@, LAMBDA job : \A i \in 1..Len(Ready(D)) : Ready(D)[i] # job)]
  IN  /\ id \in 1..Len(domRenderer.thenables)
      /\ ~domRenderer.thenables[id].settled
      /\ domRenderer' = Resolved_([domRenderer EXCEPT !.thenables[id].settled = TRUE])
      /\ UNCHANGED lastUpdate
      /\ UNCHANGED storeVars
      /\ UNCHANGED <<stringRenderer, rendered>>

\* {span: {text: fetchX()}}, {span: {text: fetchY()}}, {span: {text: failing()}}
\* and {div: {'data-x': fetchX(), text: fetchY()}}
AsyncVnodes ==
  { El(<<"s", "p", "a", "n">>, <<KV(<<"t", "e", "x", "t">>, Resolved(Str(<<"x">>)))>>),
    El(<<"s", "p", "a", "n">>, <<KV(<<"t", "e", "x", "t">>, Resolved(Str(<<"y">>)))>>),
    El(<<"s", "p", "a", "n">>, <<KV(<<"t", "e", "x", "t">>, Rejected)>>),
    El(<<"d", "i", "v">>, <<KV(<<"d", "a", "t", "a", "-", "x">>, Resolved(Str(<<"x">>))), KV(<<"t", "e", "x", "t">>, Resolved(Str(<<"y">>)))>>) }

InitAsync == Starts(New(EmptyObj, <<>>))

NextAsync ==
  \/ \E vnode \in AsyncVnodes : RenderBound(vnode)
  \/ \E id \in 1..(2 * MaxNodes) : SettleThenable(id)
  \/ Elapse(asyncCacheTtl \div 2)

SpecAsync == InitAsync /\ [][NextAsync]_vars

\* ------------------------------------------------------------ thenables
\* that settle late

\* the application renders elements with thenable properties, cleans some of
\* them up, and the thenables settle before or after that
NextLate ==
  \/ \E vnode \in AsyncVnodes : RenderBound(vnode)
  \/ \E id \in 1..(2 * MaxNodes) : SettleThenable(id)
  \/ \E element \in 1..MaxNodes : CleanupBound(element)

SpecLate == InitAsync /\ [][NextLate]_vars

\* ------------------------------------------------------------ a reactive
\* text whose function returns a thenable

\* {span: {text: fetch}}
FetchVnodes == { El(<<"s", "p", "a", "n">>, <<KV(<<"t", "e", "x", "t">>, Reads("fetch"))>>) }

\* the calls of setState the application makes: 1 and 2 at 'a'
FetchWrites == {<<P_a, Num(1)>>, <<P_a, Num(2)>>}

NextRuns ==
  \/ \E vnode \in FetchVnodes : RenderBound(vnode)
  \/ \E w \in FetchWrites : SetStateBound(w[1], w[2])
  \/ \E id \in 1..(2 * MaxNodes) : SettleThenable(id)

SpecRuns == InitAsync /\ [][NextRuns]_vars

\* ------------------------------------------------------------ the renderer
\* asked for single elements, some of which batch mode cannot key

\* the batch renders that failed in a row, up to the last render
Streak == IF lastUpdate.op = "render" THEN lastUpdate.streak ELSE 0

\* the application calls render(vnode) (an element of its own, or, through
\* _updateChildrenSafe, a child).  The record keeps the mode the call found,
\* whether its batch attempt failed, how many batch renders have failed in a
\* row, and whether it changed the mode.
Render(vnode) ==
  /\ lastUpdate.n < MaxRenders
  /\ domRenderer' = DOMRenderer_render(domRenderer, vnode).D
  /\ lastUpdate' = [op |-> "render", n |-> lastUpdate.n + 1,
                    renderMode |-> domRenderer.renderMode,
                    vnode |-> vnode,
                    failed |-> domRenderer'.failureCount > domRenderer.failureCount,
                    streak |-> IF domRenderer.renderMode # <<"b", "a", "t", "c", "h">> THEN Streak
                               ELSE IF domRenderer'.failureCount > domRenderer.failureCount
                               THEN Streak + 1 ELSE 0,
                    demoted |-> domRenderer'.renderMode # domRenderer.renderMode]
  /\ UNCHANGED storeVars
  /\ UNCHANGED <<stringRenderer, rendered>>

\* {div: {text: '1'}}, {div: {key: 'a', text: '1'}}, and the same two with an
\* attribute whose value JSON.stringify cannot take
Vnodes ==
  { El(<<"d", "i", "v">>, <<KV(<<"t", "e", "x", "t">>, Str(<<"1">>))>>),
    El(<<"d", "i", "v">>, <<KV(<<"k", "e", "y">>, Str(<<"a">>)), KV(<<"t", "e", "x", "t">>, Str(<<"1">>))>>),
    El(<<"d", "i", "v">>, <<KV(<<"t", "e", "x", "t">>, Str(<<"1">>)), KV(<<"d", "a", "t", "a", "-", "x">>, Cyclic)>>),
    El(<<"d", "i", "v">>, <<KV(<<"k", "e", "y">>, Str(<<"a">>)), KV(<<"d", "a", "t", "a", "-", "x">>, Cyclic)>>) }

InitFailures == Starts(New(EmptyObj, <<>>))

NextFailures ==
  \/ \E mode \in { <<"f", "i", "n", "e", "-", "g", "r", "a", "i", "n", "e", "d">>, <<"b", "a", "t", "c", "h">> } : SetRenderMode(mode)
  \/ \E vnode \in Vnodes : Render(vnode)

SpecFailures == InitFailures /\ [][NextFailures]_vars

\* ================================================================ claims

\* a top-level setState has returned (or thrown) and nothing else ran since
AfterSetState == Idle /\ lastOp.op = "setState"

\* every external subscription, with the path it is registered on
ExternalSubscriptions ==
  UNION { { [path |-> externalSubscribers[i].path, sub |-> externalSubscribers[i].members[j]] :
              j \in 1..Len(externalSubscribers[i].members) } :
          i \in 1..Len(externalSubscribers) }

\* every reactive subscription whose callback reads no state: such a callback
\* is registered only where subscribeInternal was called for it
InternalSubscriptions ==
  UNION { { [path |-> subscribers[i].path, cb |-> subscribers[i].members[j]] :
              j \in { k \in 1..Len(subscribers[i].members) :
                        subscribers[i].members[k] \in {"spy", "thrower"} } } :
          i \in 1..Len(subscribers) }

\* the places of the log where the tree was written at path p
WritesAt(p) == { i \in 1..Len(log) : log[i].e = "write" /\ log[i].path = p }

\* the places of the log where external subscription id was invoked for a change of p
ExtCalls(id, p) ==
  { i \in 1..Len(log) : log[i].e = "ext" /\ log[i].id = id /\ log[i].changed = p }

\* the places of the log where reactive callback cb, registered on path at,
\* was invoked for a change of p
IntCalls(cb, at, p) ==
  { i \in 1..Len(log) :
      log[i].e = "int" /\ log[i].cb = cb /\ log[i].at = at /\ log[i].changed = p }

\* q is a strict-prefix ancestor of p: p starts with q + '.'
IsAncestor(q, p) == StartsWith(p, q \o <<".">>)

\* how path q stands to the changed path p: 0 the path itself, 1 an ancestor,
\* 2 a descendant, 3 unrelated
Class(q, p) ==
  IF q = p THEN 0 ELSE IF IsAncestor(q, p) THEN 1 ELSE IF IsAncestor(p, q) THEN 2 ELSE 3

\* C1: in non-batched mode, for every valid path p and every value v,
\* setState(p, v) followed immediately by getState(p) returns v.
C1_SetThenGet ==
  (AfterSetState /\ isValidPath(lastOp.path))
    => getState(Mach, lastOp.path, Null) = lastOp.value

\* C2: in non-batched mode, after subscribe(p, cb), a setState(p, v) that
\* changes the value invokes cb exactly once before setState returns; once
\* the unsubscribe function has been called, no setState invokes cb again.
C2_SubscriberInvokedOnce ==
  AfterSetState =>
    /\ \A s \in ExternalSubscriptions :
         s.sub.cb = "spy" =>
           Cardinality(ExtCalls(s.sub.id, s.path)) = Cardinality(WritesAt(s.path))
    /\ \A i \in 1..Len(log) :
         log[i].e = "ext" => \E s \in ExternalSubscriptions : s.sub.id = log[i].id

\* C3: every setState that changes the stored value at its path notifies the
\* subscribers of that path before it returns, also a setState issued from
\* inside a subscriber callback that runs for a change of another path.
C3_EveryWriteNotifies ==
  AfterSetState =>
    \A i \in 1..Len(log) :
      log[i].e = "write" =>
        /\ \A s \in ExternalSubscriptions :
             (s.path = log[i].path /\ s.sub.cb = "spy") =>
               \E j \in ExtCalls(s.sub.id, s.path) : j > i
        /\ \A s \in InternalSubscriptions :
             (s.path = log[i].path /\ s.cb = "spy") =>
               \E j \in IntCalls(s.cb, s.path, s.path) : j > i

\* C4: when setState changes path p, the subscribers notified are those on
\* p, on every strict-prefix ancestor of p and on every strict descendant
\* of p, invoked in that class order; for reactive subscribers and for
\* subscribers registered through subscribe().
C4_NotifiedClassesInOrder ==
  (AfterSetState /\ log # <<>> /\ log[1].e = "write") =>
    LET p == log[1].path
    IN  /\ \A s \in InternalSubscriptions :
             Class(s.path, p) < 3 <=> IntCalls(s.cb, s.path, p) # {}
        /\ \A s \in ExternalSubscriptions :
             Class(s.path, p) < 3 <=> ExtCalls(s.sub.id, p) # {}
        /\ \A i, j \in 1..Len(log) :
             (i < j /\ log[i].e = log[j].e /\ log[i].e \in {"int", "ext"}
                /\ log[i].changed = p /\ log[j].changed = p)
               => Class(log[i].at, p) <= Class(log[j].at, p)

QueuedFor(queue, p) ==
  LET recs == SelectSeq(queue, LAMBDA u : u.path = p)
  IN  [i \in 1..Len(recs) |-> recs[i].value]

\* C5: with batching active, for any number of setState calls on the same
\* path issued before the flush timer fires, exactly one notification for
\* that path occurs and it carries the value of the last call; the earlier
\* queued values are never written to the tree nor observed by a subscriber.
\* (A last value deep-equal to the stored one notifies nobody: that case is
\* left out here.)
C5_CoalescedToLastValue ==
  (Idle /\ lastOp.op = "timer") =>
    \A p \in {lastOp.value[i].path : i \in 1..Len(lastOp.value)} :
      LET queued == QueuedFor(lastOp.value, p)
          last == queued[Len(queued)]
      IN  /\ \A i \in WritesAt(p) : log[i].value = last
          /\ (\A i \in 1..Len(log) : ~(log[i].e = "skip" /\ log[i].path = p))
               => \A s \in ExternalSubscriptions :
                    (s.path = p /\ s.sub.cb = "spy") =>
                      /\ Cardinality(ExtCalls(s.sub.id, p)) = 1
                      /\ \A i \in ExtCalls(s.sub.id, p) : log[i].newValue = last

\* the callback the next step of the running call invokes
NextCallback == IF Head(todo).k = "int" THEN Head(todo).cb ELSE Head(todo).sub.cb

\* a callback that calls setState('a', 2) is about to run while a setState of
\* 'a' is in flight
NestedSetOnInFlightPath == ~Idle /\ NextCallback = "writeA" /\ P_a \in currentlyUpdating

\* the notification passes that have not finished
OpenPasses(work) == Len(SelectSeq(work, LAMBDA it : it.k = "finishSet"))

\* the callbacks the running (or last) call has invoked
CallbackRuns == Len(SelectSeq(log, LAMBDA ev : ev.e \in {"int", "ext"}))

\* C6: a subscriber that calls setState('a', ...) from its callback while a
\* setState of 'a' is in flight has that nested set dropped: the tree is
\* left as it is, nothing is queued, no notification pass is opened and the
\* warning is the only trace; and the outer call terminates: each of its
\* steps invokes one callback, and it invokes a callback at most once for
\* each path it is registered on.
C6_NestedSetOnInFlightPathDropped ==
  /\ [](CallbackRuns <= 2 * nsubs)
  /\ [][ /\ ~Idle => Len(log') > Len(log)
         /\ NestedSetOnInFlightPath =>
              /\ state' = state
              /\ updateQueue' = updateQueue
              /\ OpenPasses(todo') <= OpenPasses(todo)
              /\ Len(log') = Len(log) + 2
              /\ SubSeq(log', 1, Len(log)) = log
              /\ log'[Len(log) + 1].e \in {"int", "ext"}
              /\ log'[Len(log) + 1].cb = "writeA"
              /\ log'[Len(log) + 2] = EvWarn("Circular dependency detected", P_a)
     ]_vars

\* a setState('a', v) has returned with v stored, after its subscriber on 'a'
\* called setState('a', 2) and got the warning
C6_Witness ==
  /\ AfterSetState /\ ~threw
  /\ lastOp.path = P_a /\ lastOp.value = Num(1)
  /\ Lookup(state, P_a, Null) = Num(1)
  /\ \E i \in 1..(Len(log) - 1) :
       /\ log[i].e \in {"int", "ext"} /\ log[i].cb = "writeA"
       /\ log[i].at = P_a /\ log[i].changed = P_a
       /\ log[i + 1] = EvWarn("Circular dependency detected", P_a)

\* C7: a setState(p, v) whose value after middleware equals, structurally,
\* the value stored at p is skipped entirely: the tree is unchanged and no
\* subscriber of any kind is notified.
C7_DeepEqualSetSkipped ==
  [][ (/\ Idle /\ lastOp'.op = "setState"
       /\ isValidPath(lastOp'.path)
       /\ RunMiddleware(middleware, Lookup(state, lastOp'.path, Null), lastOp'.value)
            = Lookup(state, lastOp'.path, Null))
        => /\ state' = state
           /\ todo' = <<>>
           /\ subscribers' = subscribers
           /\ \A i \in 1..Len(log') : log'[i].e \notin {"int", "ext", "write"}
    ]_vars

\* setState('a', {b: 1}) returned without a write while 'a' held {b: 1} and
\* had a subscriber
C7_Witness ==
  /\ AfterSetState
  /\ lastOp.path = P_a /\ lastOp.value = ObjB1
  /\ Lookup(state, P_a, Null) = ObjB1
  /\ \E s \in ExternalSubscriptions : s.path = P_a /\ s.sub.cb = "spy"
  /\ \E i \in 1..Len(log) : log[i] = EvSkip(P_a)
  /\ WritesAt(P_a) = {}

\* the chain without the middleware that throw
WithoutThrowers(mws) == SelectSeq(mws, LAMBDA kind : kind # "throw")

\* the log without its 'Middleware error' lines
WithoutMiddlewareErrors(entries) ==
  SelectSeq(entries, LAMBDA ev : ~(ev.e = "error" /\ ev.msg = "Middleware error"))

MiddlewareErrorCount(entries) == Len(entries) - Len(WithoutMiddlewareErrors(entries))

\* stores M1 and M2 differ in nothing but their chains and the
\* 'Middleware error' lines they logged
SameButForThrowers(M1, M2) ==
  [M1 EXCEPT !.middleware = <<>>, !.log = WithoutMiddlewareErrors(@)]
    = [M2 EXCEPT !.middleware = <<>>, !.log = WithoutMiddlewareErrors(@)]

\* C10: a middleware that throws during setState is logged and otherwise
\* without effect: the value passed on is the one current before it ran,
\* the remaining middleware still run, and the set proceeds to its write
\* and notifications with the resulting value; that is, every step of the
\* store is the step it takes with the throwing middleware removed from
\* the chain, plus one logged error for each throw.
C10_MiddlewareThrowIsolated ==
  [][ (\E i \in 1..Len(middleware) : middleware[i] = "throw") =>
        LET Without(M) == [M EXCEPT !.middleware = WithoutThrowers(@)]
        IN  /\ (Idle /\ lastOp'.op = "setState") =>
                 /\ SameButForThrowers(Mach',
                      Settle(setState(Without(Fresh), lastOp'.path, lastOp'.value)))
                 /\ (isValidPath(lastOp'.path) /\ lastOp'.path \notin currentlyUpdating)
                      => MiddlewareErrorCount(log')
                           = Len(middleware) - Len(WithoutThrowers(middleware))
            /\ ~Idle => SameButForThrowers(Mach', Settle(Invoke(Without(Mach))))
    ]_vars

\* a setState('a', 2) through a chain with a middleware that throws and one
\* that caps numbers at 1 logged the error, wrote 1 and notified with 1
C10_Witness ==
  /\ AfterSetState
  /\ lastOp.path = P_a /\ lastOp.value = Num(2)
  /\ \E i, j, k \in 1..Len(log) :
       /\ i < j /\ j < k
       /\ log[i] = EvError("Middleware error")
       /\ log[j] = EvWrite(P_a, Num(1))
       /\ log[k].e = "ext" /\ log[k].cb = "spy" /\ log[k].newValue = Num(1)

\* what C11 calls a path to reject: not a string, empty or whitespace
\* only, or holding the parent-escape sequence '..'
RejectedPath(path) ==
  \/ path = NotAString
  \/ \A i \in 1..Len(path) : path[i] = " "
  \/ \E i \in 1..(Len(path) - 1) : path[i] = "." /\ path[i + 1] = "."

\* C11: a path that is not a string, is empty or whitespace only, or
\* contains '..' is rejected: getState returns the supplied default and
\* registers no dependency; setState leaves the tree and the update queue
\* unchanged and notifies no subscriber.
C11_InvalidPathRejected ==
  [][ (Idle /\ RejectedPath(lastOp'.path)) =>
        /\ lastOp'.op = "getState" =>
             /\ lastOp'.value.result = lastOp'.value.default
             /\ currentTracking' = currentTracking
             /\ state' = state
        /\ lastOp'.op = "setState" =>
             /\ state' = state
             /\ updateQueue' = updateQueue
             /\ timerArmed' = timerArmed
             /\ todo' = <<>>
             /\ \A i \in 1..Len(log') : log'[i].e = "warn"
    ]_vars

\* setState('a..b', v) returned from a store that holds a value at 'a', has a
\* subscriber on 'a' and an update queued: only the warning came of it
C11_Witness ==
  /\ AfterSetState
  /\ lastOp.path = P_escape
  /\ log = <<EvWarn("Invalid state path", P_escape)>>
  /\ Lookup(state, P_a, Null) # Null
  /\ updateQueue # <<>>
  /\ \E s \in ExternalSubscriptions : s.path = P_a

\* path p is named in preserve, or lies under or over a path named in it
TouchedByPreserve(p, preserve) ==
  \E i \in 1..Len(preserve) :
    preserve[i] = p \/ IsAncestor(p, preserve[i]) \/ IsAncestor(preserve[i], p)

\* C12: after reset(preserve) returns, the tree equals the snapshot of the
\* initial state taken at construction, except that every path named in
\* preserve holds the value it held immediately before the reset.
C12_ResetRestoresSnapshot ==
  (Idle /\ lastOp.op = "reset") =>
    LET preserve == lastOp.value.preserve
        before == lastOp.value.before
    IN  /\ \A i \in 1..Len(preserve) :
             Lookup(state, preserve[i], Null) = Lookup(before, preserve[i], Null)
        /\ \A k \in {P_a, P_b} :
             ~TouchedByPreserve(k, preserve)
               => Lookup(state, k, Null) = Lookup(initialState, k, Null)

\* ---- C13

RECURSIVE WithResolved(_)
\* the view with every thenable replaced by the value it resolves to
WithResolved(v) ==
  CASE v.t = "then" -> IF v.fate = "rejected" THEN v ELSE WithResolved(v.v)
    [] v.t = "arr" -> Arr([i \in 1..Len(v.items) |-> WithResolved(v.items[i])])
    [] v.t = "rec" ->
         Rec([i \in 1..Len(v.entries) |->
                [k |-> v.entries[i].k, v |-> WithResolved(v.entries[i].v)]])
    [] v.t = "fn" -> IF v.throws THEN v ELSE Fn(WithResolved(v.ret))
    [] OTHER -> v

RECURSIVE Plain(_)
\* the view has no component, no function that throws, no thenable that
\* rejects and no object that String() cannot convert
Plain(v) ==
  CASE v.t = "then" -> v.fate # "rejected" /\ Plain(v.v)
    [] v.t = "arr" -> \A i \in 1..Len(v.items) : Plain(v.items[i])
    [] v.t = "rec" ->
         \A i \in 1..Len(v.entries) :
           v.entries[i].k \notin DOMAIN components /\ Plain(v.entries[i].v)
    [] v.t = "fn" -> ~v.throws /\ Plain(v.ret)
    [] v.t = "bare" -> FALSE
    [] OTHER -> TRUE

\* C13: a forced-async render that is not timed out resolves to the string
\* the synchronous render gives for the same view with its thenables replaced
\* by the values they resolve to.
C13_AsyncEqualsResolvedSync ==
  ( /\ rendered.op = "renderToString"
    /\ rendered.forceAsync
    /\ rendered.inTime
    /\ ~Falsy(rendered.layout)
    /\ Plain(rendered.layout) )
  => rendered.html = render(NewRenderer, WithResolved(rendered.layout)).html

\* ---- C14

\* C14: an auto-detecting renderToString hands back a Promise exactly when
\* its synchronous attempt met a value with a callable then.
C14_EscalatesIffThenable ==
  ( /\ rendered.op = "renderToString"
    /\ ~rendered.forceAsync
    /\ rendered.autoDetect
    /\ ~Falsy(rendered.layout) )
  => ( rendered.kind = "promise"
       <=> render(NewRenderer, rendered.layout).R.asyncDetected )

\* ---- C15

\* the renderer with renderDepth past maxRenderDepth
PastMaximum == [NewRenderer EXCEPT !.renderDepth = MaxRenderDepth + 1]

\* C15: renderDepth never exceeds maxRenderDepth + 1 during a call; a render
\* entered with renderDepth past the maximum returns the marker and leaves the
\* renderer as it was; and a call that reached the maximum carries the marker
\* in its markup.
C15_DepthGuard ==
  rendered.op # "none" =>
    /\ rendered.peak <= MaxRenderDepth + 1
    /\ stringRenderer.renderDepth <= MaxRenderDepth + 1
    /\ render(PastMaximum, rendered.layout) = Ret(MaxDepthMarker, PastMaximum)
    /\ (rendered.kind = "string" /\ rendered.peak = MaxRenderDepth + 1)
         => Includes(rendered.html, MaxDepthMarker)

C15_Witness ==
  /\ rendered.op = "renderToString"
  /\ rendered.layout = Component(<<"L", "o", "o", "p">>)
  /\ rendered.kind = "string"
  /\ rendered.html = MaxDepthMarker
  /\ rendered.peak = MaxRenderDepth + 1

\* ---- C16

ParaHtml == <<"<", "p", ">", "p", "<", "/", "p", ">">>

\* an HTML comment, or nothing
ErrorRegion(html) ==
  html = <<>> \/ (StartsWith(html, <<"<", "!", "-", "-", " ">>) /\ EndsWith(html, <<" ", "-", "-", ">">>))

\* html is the two paragraphs around an error region
AroundRegion(html) ==
  /\ StartsWith(html, ParaHtml)
  /\ EndsWith(html, ParaHtml)
  /\ Len(html) >= 2 * Len(ParaHtml)
  /\ ErrorRegion(SubSeq(html, Len(ParaHtml) + 1, Len(html) - Len(ParaHtml)))

FailingComponents == { <<"B", "o", "o", "m">>, <<"F", "a", "i", "l", "s">> }

\* C16: no call throws or rejects, and a component that throws or whose
\* thenable rejects, between two paragraphs, becomes an error comment (or
\* nothing) between the markup of the two paragraphs.
C16_FailureIsLocal ==
  rendered.op # "none" =>
    /\ ~rendered.threw
    /\ \A f \in FailingComponents :
         /\ rendered.layout = Arr(<<Para, Component(f), Para>>)
              => AroundRegion(rendered.html)
         /\ rendered.layout =
              El(<<"d", "i", "v">>, <<KV(<<"c", "h", "i", "l", "d", "r", "e", "n">>, Arr(<<Para, Component(f), Para>>))>>)
              => /\ StartsWith(rendered.html, <<"<", "d", "i", "v", ">">>)
                 /\ EndsWith(rendered.html, <<"<", "/", "d", "i", "v", ">">>)
                 /\ Len(rendered.html) >= 11
                 /\ AroundRegion(SubSeq(rendered.html, 6, Len(rendered.html) - 6))

\* ---- C17

TimeoutDiv == ErrorDiv(<<"A", "s", "y", "n", "c", " ", "S", "t", "r", "i", "n", "g", "R", "e", "n", "d", "e", "r", "e", "r", " ", "E", "r", "r", "o", "r">>, <<"A", "s", "y", "n", "c", " ", "r", "e", "n", "d", "e", "r", " ", "t", "i", "m", "e", "o", "u", "t">>)

\* the call was timed out: it waited for a Slow thenable that came late
TimedOut == rendered.waited /\ ~rendered.inTime

\* C17 as stated: every forced-async renderToString returns a Promise that
\* resolves, to the timeout marker when it is timed out and to markup
\* otherwise.
C17_ForcedAsyncResolves ==
  (rendered.op # "none" /\ rendered.forceAsync) =>
    /\ rendered.kind = "promise"
    /\ ~rendered.threw
    /\ TimedOut <=> rendered.html = TimeoutDiv
    /\ ~TimedOut => ~StartsWith(rendered.html, <<"<", "d", "i", "v", " ", "s", "t", "y", "l", "e", "=", "\"", "c", "o", "l", "o", "r", ":", " ", "r", "e", "d", ";", "\"", ">">>)

\* C17, amended: a forced-async renderToString of a layout that is not falsy,
\* and every api.renderToString with async, returns a Promise that resolves:
\* to the timeout marker, which carries 'Async render timeout', when it is
\* timed out and to the markup of the async render otherwise.
C17_ForcedAsyncResolvesGivenLayout ==
  ( /\ rendered.op # "none"
    /\ rendered.forceAsync
    /\ (rendered.op = "api.renderToString" \/ ~Falsy(rendered.layout)) ) =>
    /\ rendered.kind = "promise"
    /\ ~rendered.threw
    /\ TimedOut <=> rendered.html = TimeoutDiv
    /\ Includes(TimeoutDiv, <<"A", "s", "y", "n", "c", " ", "r", "e", "n", "d", "e", "r", " ", "t", "i", "m", "e", "o", "u", "t">>)
    /\ ~TimedOut => ~StartsWith(rendered.html, <<"<", "d", "i", "v", " ", "s", "t", "y", "l", "e", "=", "\"", "c", "o", "l", "o", "r", ":", " ", "r", "e", "d", ";", "\"", ">">>)

C17_Witness ==
  /\ rendered.op = "renderToString"
  /\ rendered.forceAsync
  /\ rendered.layout = Component(<<"L", "a", "t", "e">>)
  /\ TimedOut
  /\ rendered.kind = "promise"
  /\ rendered.html = TimeoutDiv

\* ---- C18

\* the entity of a character, or the character
EntityOf(ch) ==
  CASE ch = "&" -> <<"&", "a", "m", "p", ";">>
    [] ch = "<" -> <<"&", "l", "t", ";">>
    [] ch = ">" -> <<"&", "g", "t", ";">>
    [] ch = "\"" -> <<"&", "q", "u", "o", "t", ";">>
    [] ch = "'" -> <<"&", "#", "3", "9", ";">>
    [] OTHER -> <<ch>>

RECURSIVE EscapedOnce(_)
\* every character of s replaced by its entity, once
EscapedOnce(s) ==
  IF s = <<>> THEN <<>> ELSE EntityOf(Head(s)) \o EscapedOnce(Tail(s))

\* the strings the views of the model have as a text or as an attribute value
Strings ==
  {v.s : v \in {w \in TextValues \cup AttributeValues : w.t = "str"}}

\* C18: a string given as the text of an element, or as the value of its
\* title or data-x attribute, is in the markup with each of & < > " ' replaced
\* by its entity once, on the synchronous path and on the asynchronous one.
C18_EscapedOnce ==
  rendered.op # "none" => \A s \in Strings :
    /\ rendered.layout = El(<<"d", "i", "v">>, <<KV(<<"t", "e", "x", "t">>, Str(s))>>)
         => rendered.html = <<"<", "d", "i", "v", ">">> \o EscapedOnce(s) \o <<"<", "/", "d", "i", "v", ">">>
    /\ \A name \in { <<"t", "i", "t", "l", "e">>, <<"d", "a", "t", "a", "-", "x">> } :
         rendered.layout = El(<<"a">>, <<KV(name, Str(s))>>)
           => rendered.html = <<"<", "a", " ">> \o name \o <<"=", "\"">> \o EscapedOnce(s)
                              \o <<"\"">> \o <<">", "<", "/", "a", ">">>

C18_Witness ==
  /\ rendered.op = "renderToString"
  /\ rendered.layout = El(<<"d", "i", "v">>, <<KV(<<"t", "e", "x", "t">>, Str(<<"<", "b", ">", "&">>))>>)
  /\ rendered.html = <<"<", "d", "i", "v", ">", "&", "l", "t", ";", "b", "&", "g", "t", ";", "&", "a", "m", "p", ";", "<", "/", "d", "i", "v", ">">>

\* ---- C19

\* C19: a boolean attribute given true is in the markup as its bare name, and
\* one given false, null or undefined is not in the markup, on the synchronous
\* path and on the asynchronous one.
C19_BooleanAttribute ==
  rendered.op # "none" => \A v \in {Bool(TRUE), Bool(FALSE), Null, Undefined} :
    rendered.layout = El(<<"b", "u", "t", "t", "o", "n">>, <<KV(<<"d", "i", "s", "a", "b", "l", "e", "d">>, v)>>)
      => rendered.html = IF v = Bool(TRUE) THEN <<"<", "b", "u", "t", "t", "o", "n", " ", "d", "i", "s", "a", "b", "l", "e", "d", ">", "<", "/", "b", "u", "t", "t", "o", "n", ">">>
                         ELSE <<"<", "b", "u", "t", "t", "o", "n", ">", "<", "/", "b", "u", "t", "t", "o", "n", ">">>

\* the tag and the properties of a vnode of a list
TagOf(vnode) == ObjectKeys(vnode)[1]
PropsOf(vnode) == Entry(vnode, TagOf(vnode))
KeyOf(vnode) == Entry(PropsOf(vnode), <<"k", "e", "y">>)

\* the places of a list of vnodes that carry the key
Keyed(children, key) == { i \in 1..Len(children.items) : KeyOf(children.items[i]) = key }

\* place j of the new list is a keyed child that place i of the old list
\* carried too, with the same tag, and neither list has the key twice
SameKeyAndTag(i, j) ==
  LET old == lastUpdate.oldChildren.items[i]
      new == lastUpdate.newChildren.items[j]
  IN  /\ KeyOf(new) # Undefined
      /\ Keyed(lastUpdate.oldChildren, KeyOf(new)) = {i}
      /\ Keyed(lastUpdate.newChildren, KeyOf(new)) = {j}
      /\ TagOf(old) = TagOf(new)

\* the element at place j of the parent is the node that stood at place i
ReusedNode(i, j) == domRenderer.childElements[j] = lastUpdate.oldElements[i]

\* the element at place j shows the properties of the new child at place j
ShowsNewChild(j) ==
  LET new == lastUpdate.newChildren.items[j]
      element == domRenderer.nodes[domRenderer.childElements[j]]
  IN  /\ element.textContent = JsString(Entry(PropsOf(new), <<"t", "e", "x", "t">>))
      /\ Entry(PropsOf(new), <<"t", "i", "t", "l", "e">>) # Undefined
           => KeyedGet(element.attributes, <<"t", "i", "t", "l", "e">>) = JsString(Entry(PropsOf(new), <<"t", "i", "t", "l", "e">>))

\* C20: in batch mode, when the children function returns a new list, a child
\* of the new list that has the key and the tag of a child of the old list is
\* the same DOM node as before, and that node shows the properties of the new
\* child: after [{div:{key:'a', text:'1'}}] then [{div:{key:'a', text:'2'}}]
\* the parent holds the same node and its text is '2'.
C20_KeyedChildReusedAndUpdated ==
  (lastUpdate.op = "updateChildren" /\ lastUpdate.renderMode = <<"b", "a", "t", "c", "h">>)
    => \A i \in 1..Len(lastUpdate.oldChildren.items),
          j \in 1..Len(lastUpdate.newChildren.items) :
         SameKeyAndTag(i, j) => ReusedNode(i, j) /\ ShowsNewChild(j)

\* ---- C21
\* the elements that wait in the recycle pools
Pooled == UNION { {e.v[i] : i \in 1..Len(e.v)} : e \in {domRenderer.recyclePool[i] : i \in 1..Len(domRenderer.recyclePool)} }

\* the element lies in the pool of its own tag
InPoolOfItsTag(element) ==
  /\ KeyedHas(domRenderer.recyclePool, ToLowerCase(domRenderer.nodes[element].tagName))
  /\ \E i \in 1..Len(KeyedGet(domRenderer.recyclePool, ToLowerCase(domRenderer.nodes[element].tagName))) :
       KeyedGet(domRenderer.recyclePool, ToLowerCase(domRenderer.nodes[element].tagName))[i] = element

\* C21: an element that reconciliation removed waits in the recycle pool of
\* its tag with all its attributes and content cleared, so that what the pool
\* hands out carries no attribute, class or text of its previous use
C21_RecycledElementIsCleared ==
  \A element \in Pooled :
    /\ InPoolOfItsTag(element)
    /\ domRenderer.nodes[element].textContent = <<>>
    /\ domRenderer.nodes[element].className = <<>>
    /\ domRenderer.nodes[element].attributes = <<>>

\* ---- C25
\* the step is a setState of the application that _queueUpdate takes
QueuesUpdate ==
  /\ todo = <<>>
  /\ lastOp'.op = "setState"
  /\ isValidPath(lastOp'.path)
  /\ lastOp'.path \notin currentlyUpdating
  /\ batchingEnabled /\ batchDelayMs > 0

\* the call has run _processBatchedUpdates: it warned of the large queue and
\* applied the record at the head of the queue through _setStateImmediate
FlushedAtOnce ==
  /\ \E i \in 1..Len(log') : log'[i].e = "warn" /\ log'[i].msg = "Update queue is getting large"
  /\ \E i \in 1..Len(log') : log'[i].e \in {"write", "skip"} /\ log'[i].path = Head(updateQueue).path

\* C25 as the spec has it: a setState that makes the queue longer than
\* maxBatchSize flushes before it returns
C25_OverflowFlushesAtMax ==
  [][(QueuesUpdate /\ Len(updateQueue) + 1 > maxBatchSize) => FlushedAtOnce]_vars

\* C25 as the code has it: a setState of the application flushes before it
\* returns when, and only when, it makes the queue longer than twice
\* maxBatchSize; the flush applies the first maxBatchSize records, and a
\* shorter queue waits for the batching timer
C25_OverflowFlushesAtTwiceMax ==
  [][QueuesUpdate =>
       IF Len(updateQueue) + 1 > 2 * maxBatchSize
       THEN /\ FlushedAtOnce
            /\ Len(updateQueue') >= Len(updateQueue) + 1 - maxBatchSize
       ELSE /\ updateQueue' = Append(updateQueue, [path |-> lastOp'.path, value |-> lastOp'.value])
            /\ log' = <<>>
            /\ state' = state
            /\ batchTimeout' /\ timerArmed']_vars

\* a setState has just flushed the queue itself
C25_Witness ==
  /\ lastOp.op = "setState"
  /\ \E i \in 1..Len(log) : log[i].e = "warn" /\ log[i].msg = "Update queue is getting large"
  /\ \E i \in 1..Len(log) : log[i].e = "write"

\* ---- C29
\* C29: the render-depth counter is balanced: when a top-level render has
\* returned, or the Promise it returned has settled, the counter is back to
\* the value it had before the call, which is 0
C29_RenderDepthBalanced ==
  rendered # NotRendered => stringRenderer.renderDepth = 0

\* ---- C24
\* C24: a render in batch mode demotes the mode to fine-grained when, and only
\* when, it is the third (maxFailures) batch render in a row that failed: a
\* batch render that succeeds starts the count again
C24_DemotedAtConsecutiveFailures ==
  (lastUpdate.op = "render" /\ lastUpdate.renderMode = <<"b", "a", "t", "c", "h">>)
    => (lastUpdate.demoted <=> lastUpdate.streak >= maxFailures)

\* ---- C30
\* the tree as it stands between two calls: no fragment is in use
AtRest == [D |-> domRenderer, fragment |-> <<>>]

\* the elements an element has under it, n levels down at most
RECURSIVE Below(_, _)
Below(elements, n) ==
  IF n = 0 THEN elements
  ELSE Below(elements \cup UNION { childrenOf(AtRest, element) : element \in elements }, n - 1)

\* the element is not among the elements under it
Acyclic ==
  \A element \in 1..Len(domRenderer.nodes) :
    element \notin Below(childrenOf(AtRest, element), Len(domRenderer.nodes))

\* the parent and the elements it stands in
AtOrAbove ==
  { element \in 1..Len(domRenderer.nodes) : contains(AtRest, element, domRenderer.parent) }

\* C30: with a keyed parent inside a keyed element, after any sequence of
\* reconciliations the tree is acyclic, and a candidate child that is the parent
\* itself or the element around it is skipped: it is neither attached to the
\* parent nor among the children the reconciliation returns, and it stays where
\* it was
C30_NeverAttachedAtOrBelowItself ==
  (domRenderer.mounted /\ domRenderer.parent # 0)
    => /\ Acyclic
       /\ \A i \in 1..Len(domRenderer.childNodes) : domRenderer.childNodes[i] \notin AtOrAbove
       /\ \A i \in 1..Len(domRenderer.childElements) : domRenderer.childElements[i] \notin AtOrAbove
       /\ Cardinality(AtOrAbove) = 2

\* a reconciliation in batch mode whose new children had the parent's key, or
\* the key of the element around it, on an element of their tag, next to a
\* child that was attached
C30_Witness ==
  /\ domRenderer.mounted /\ domRenderer.parent # 0
  /\ lastUpdate.op = "updateChildren" /\ lastUpdate.renderMode = <<"b", "a", "t", "c", "h">>
  /\ Len(lastUpdate.newChildren.items) = 2
  /\ \E i \in 1..2 : /\ KeyOf(lastUpdate.newChildren.items[i]) \in {Str(<<"p">>), Str(<<"g">>)}
                     /\ TagOf(lastUpdate.newChildren.items[i]) = <<"d", "i", "v">>
  /\ Len(domRenderer.childNodes) = 1

\* ---- C22
\* the elements that have been made and are not in the mounted parent
Removed ==
  { element \in 1..Len(domRenderer.nodes) :
      \A i \in 1..Len(domRenderer.childNodes) : domRenderer.childNodes[i] # element }

\* C22: every element the renderer has removed from the parent (by
\* reconciliation of an unmatched old child, or by recycling) has had its
\* binding torn down: it has no entry in this.subscriptions and no listener
\* left, and an element still in the parent that has listeners has its entry
C22_RemovedNodeTornDown ==
  domRenderer.mounted =>
    \A element \in Removed :
      /\ ~KeyedHas(domRenderer.subscriptions, element)
      /\ domRenderer.nodes[element].listeners = <<>>

\* ---- C27
\* the closures the renderer made for elements that have been cleaned up
\* (cleanup recurses, so these are the closures of their descendants too)
CleanedUpClosures ==
  { i \in 1..Len(domRenderer.closures) :
      domRenderer.closures[i].v.element \in domRenderer.cleanedUp }

\* C27: after an element has been cleaned up, no reactive update callback
\* created for it is registered in the store for any path
C27_CleanedUpCallbackUnregistered ==
  \A i \in CleanedUpClosures :
    \A j \in 1..Len(subscribers) :
      ~SetHas(subscribers[j].members, domRenderer.closures[i].k)

\* ---- C26
\* the reads of the call that has just ended made by closures whose element
\* was not cleaned up
ReadsOfLiveClosures ==
  { i \in 1..Len(log) :
      /\ log[i].e = "read"
      /\ KeyedGet(domRenderer.closures, log[i].cb).element \notin domRenderer.cleanedUp }

\* C26: every path a reactive update callback read through getState while it
\* ran (when it was created or when a setState invoked it) is subscribed for
\* that callback when the call has ended, also when the callback created
\* nested reactive bindings while it ran
C26_ReadPathsSubscribed ==
  \A i \in ReadsOfLiveClosures :
    SetHas(MapGet(subscribers, log[i].path), log[i].cb)

\* ---- C28
\* what this.subscriptions held for element when the last cleanup began
RecordedFor(element) ==
  IF KeyedHas(lastUpdate.subscriptions, element)
  THEN KeyedGet(lastUpdate.subscriptions, element)
  ELSE [subscriptions |-> <<>>, eventListeners |-> <<>>]

\* the unsubscribe handles recorded for the elements under the one cleaned up
RecordedHandles ==
  UNION { { RecordedFor(element).subscriptions[i] :
              i \in 1..Len(RecordedFor(element).subscriptions) } :
          element \in lastUpdate.under }

\* C28: cleanup(element) has called every unsubscribe handle recorded for the
\* element and for each of its descendants, each once and no other (so a
\* second cleanup, which finds no record, calls none), the callbacks of the
\* handles are out of the store's Set of their path, every recorded listener is
\* off its element, and neither this.subscriptions nor the key-to-element
\* cache has an entry for any of these elements
C28_CleanupCascades ==
  lastUpdate.op = "cleanup" =>
    /\ { domRenderer.called[i] : i \in 1..Len(domRenderer.called) } = RecordedHandles
    /\ Len(domRenderer.called) = Cardinality(RecordedHandles)
    /\ \A handle \in RecordedHandles :
         ~SetHas(MapGet(subscribers, handle.path), handle.callback)
    /\ \A element \in lastUpdate.under :
         /\ ~KeyedHas(domRenderer.subscriptions, element)
         /\ \A i \in 1..Len(RecordedFor(element).eventListeners) :
              \A j \in 1..Len(domRenderer.nodes[element].listeners) :
                domRenderer.nodes[element].listeners[j] # RecordedFor(element).eventListeners[i]
         /\ \A i \in 1..Len(domRenderer.elementCache) :
              domRenderer.elementCache[i].v # element

\* a cleanup in batch mode of an element that had listeners and a cached
\* child with a reactive text
C28_Witness ==
  /\ lastUpdate.op = "cleanup"
  /\ domRenderer.renderMode = <<"b", "a", "t", "c", "h">>
  /\ Cardinality(lastUpdate.under) = 2
  /\ RecordedFor(lastUpdate.element).eventListeners # <<>>
  /\ \E element \in lastUpdate.under \ {lastUpdate.element} :
       /\ RecordedFor(element).subscriptions # <<>>
       /\ ~Falsy(domRenderer.nodes[element]._jurisKey)
  /\ Len(domRenderer.called) >= 1

\* ---- C23
\* the thenables element i of built was built with are not all settled
Unsettled(i) ==
  \E j \in 1..Len(domRenderer.built[i].v) :
    ~domRenderer.thenables[domRenderer.built[i].v[j].id].settled

\* C23: an element built with thenable properties carries the loading marker
\* (and '...' for a thenable text) until its own thenables have settled, and
\* then shows what each of them settled to: the value, or the error marker and
\* 'Error: ' with the message for a text that was rejected
C23_ShowsOwnThenable ==
  \A i \in 1..Len(domRenderer.built) :
    LET element == domRenderer.nodes[domRenderer.built[i].k]
        own == domRenderer.built[i].v
        Shown(k, thenable) ==
          IF thenable.fate = "resolved"
          THEN IF k = <<"t", "e", "x", "t">> THEN element.textContent = JsString(thenable.v)
               ELSE KeyedGet(element.attributes, k) = JsString(thenable.v)
          ELSE /\ HasClass(element, <<"j", "u", "r", "i", "s", "-", "a", "s", "y", "n", "c", "-", "e", "r", "r", "o", "r">>)
               /\ k = <<"t", "e", "x", "t">> => element.textContent = <<"E", "r", "r", "o", "r", ":", " ">> \o ErrorMessage
    IN  IF Unsettled(i)
        THEN /\ HasClass(element, <<"j", "u", "r", "i", "s", "-", "a", "s", "y", "n", "c", "-", "l", "o", "a", "d", "i", "n", "g">>)
             /\ \A j \in 1..Len(own) : own[j].k = <<"t", "e", "x", "t">> => element.textContent = <<".", ".", ".">>
        ELSE /\ ~HasClass(element, <<"j", "u", "r", "i", "s", "-", "a", "s", "y", "n", "c", "-", "l", "o", "a", "d", "i", "n", "g">>)
             /\ \A j \in 1..Len(own) : Shown(own[j].k, domRenderer.thenables[own[j].id].value)

\* ---- C31
\* C31: whenever no call of the application is executing, the notification
\* guard is reset: isUpdating is false and no path is in currentlyUpdating,
\* whether the last setState returned or a subscriber of it threw
C31_GuardResetAtRest ==
  Idle => (~isUpdating /\ currentlyUpdating = {})

\* ---- C39
\* C39: every reactive binding restores the tracking context it found, so
\* that when no call of the application is executing currentTracking is null
\* as it was at the construction, and a getState of the application is
\* recorded in no Dependency Set
C39_TrackingRestored ==
  Idle => currentTracking = NoTracking

\* ---- C40
\* the segments of q are those of p, or the first of them, or begin with them
OnOnePath(q, p) ==
  LET qs == getPathParts(q)
      ps == getPathParts(p)
  IN  \/ Len(qs) <= Len(ps) /\ SubSeq(ps, 1, Len(qs)) = qs
      \/ Len(ps) <= Len(qs) /\ SubSeq(qs, 1, Len(ps)) = ps

\* an ancestor of p holds an array or a string in the tree
ThroughArrayOrString(tree, p) ==
  \E n \in 1..(Len(getPathParts(p)) - 1) :
    Walk(tree, SubSeq(getPathParts(p), 1, n), Null).t \in {"arr", "str"}

C38_DrainedQueueHoldsLastValues ==
  (Idle /\ updateQueue = <<>>) =>
    \A p \in {P_a, P_ab, P_b} : Lookup(state, p, Null) = Lookup(Expected, p, Null)

\* ---- C32

\* what an evaluated property holds: the result of a function, the value a
\* thenable resolves to
RECURSIVE EvaluatedTo(_)
EvaluatedTo(v) ==
  CASE v.t = "fn" -> EvaluatedTo(v.ret)
    [] v.t = "then" -> EvaluatedTo(v.v)
    [] OTHER -> v

RECURSIVE Deepest(_, _)
\* the greatest of depth(item) over the items, 0 for none
Deepest(depths, n) ==
  IF n = 0 THEN 0
  ELSE LET rest == Deepest(depths, n - 1)
       IN  IF depths[n] > rest THEN depths[n] ELSE rest

RECURSIVE NestingDepth(_)
\* the nesting depth of a view without components: the number of render calls
\* on the longest path from the view down to a leaf
NestingDepth(v) ==
  LET DepthBelow(items) ==
        Deepest([i \in 1..Len(items) |-> NestingDepth(items[i])], Len(items))
      DepthOfContent(props) ==
        LET kids == EvaluatedTo(Entry(props, <<"c", "h", "i", "l", "d", "r", "e", "n">>))
        IN  IF Entry(props, <<"t", "e", "x", "t">>) # Undefined THEN 0
            ELSE IF Entry(props, <<"c", "h", "i", "l", "d", "r", "e", "n">>) = Undefined THEN 0
            ELSE IF kids.t = "arr" THEN DepthBelow(kids.items)
            ELSE IF kids \notin {Null, Undefined} THEN NestingDepth(kids)
            ELSE 0
  IN  IF Falsy(v) THEN 1
      ELSE IF v.t = "arr" THEN 1 + DepthBelow(v.items)
      ELSE IF v.t = "rec" /\ ObjectKeys(v) # <<>> /\ ~Falsy(Entry(v, ObjectKeys(v)[1]))
        THEN 1 + DepthOfContent(Entry(v, ObjectKeys(v)[1]))
      ELSE 1

\* C32: an asynchronous render of a view whose nesting depth is within
\* maxRenderDepth yields no max-depth marker, however long its child lists are
C32_SiblingsNotCounted ==
  ( /\ rendered.op = "renderToString"
    /\ rendered.forceAsync
    /\ rendered.inTime
    /\ Plain(rendered.layout)
    /\ NestingDepth(rendered.layout) <= MaxRenderDepth )
  => ~Includes(rendered.html, MaxDepthMarker)

\* ---- C36

\* a renderer on which no other pass is in progress
Alone == [NewRenderer EXCEPT !.autoDetectAsync = rendered.autoDetect]

\* C36: a renderToString pass that starts while an earlier pass on the same
\* renderer is still suspended (abandoned by the timeout of a forced-async
\* call) produces the output it produces on a renderer of its own
C36_AsWhenAlone ==
  rendered.op = "renderToString" =>
    rendered.html =
      renderToString(Alone, rendered.layout, rendered.forceAsync, rendered.inTime).html

\* ---- C33

\* C33: once the children function's list of n object vnodes has been
\* reconciled, the parent has exactly n children, all distinct, and they are
\* the elements the reconciliation returned, in list order
C33_OneElementPerVnode ==
  (domRenderer.mounted /\ domRenderer.lastChildrenState.t = "arr") =>
    /\ Len(domRenderer.childNodes) = Len(domRenderer.lastChildrenState.items)
    /\ \A i, j \in 1..Len(domRenderer.childNodes) :
         domRenderer.childNodes[i] = domRenderer.childNodes[j] => i = j
    /\ domRenderer.childNodes = domRenderer.childElements

\* ---- C37

\* how often the element occurs in the recycle pools
TimesPooled(element) ==
  LET RECURSIVE Counted(_)
      Counted(pools) ==
        IF pools = <<>> THEN 0
        ELSE Len(SelectSeq(Head(pools).v, LAMBDA e : e = element)) + Counted(Tail(pools))
  IN  Counted(domRenderer.recyclePool)

\* C37: an element in the recycle pool has no parent, is the value of no key
\* of elementCache, and is in the pools once
C37_PooledElementIsFree ==
  \A element \in Pooled :
    /\ \A i \in 1..Len(domRenderer.childNodes) : domRenderer.childNodes[i] # element
    /\ ~KeyedHas(domRenderer.parentNode, element)
    /\ \A i \in 1..Len(domRenderer.elementCache) : domRenderer.elementCache[i].v # element
    /\ TimesPooled(element) = 1

\* ---- C34

\* C34: no step changes an element that cleanup has been called on: a thenable
\* property that settles after the cleanup of its element leaves the element
\* as the cleanup left it
C34_SettledLateLeavesElement ==
  [][ \A element \in domRenderer.cleanedUp :
        domRenderer'.nodes[element] = domRenderer.nodes[element] ]_vars

\* ---- C35

\* the thenables the runs of the reactive text of element returned, in the
\* order of the runs
RunsOf(element) ==
  LET runs == SelectSeq(domRenderer.built, LAMBDA b : b.k = element)
  IN  [i \in 1..Len(runs) |-> runs[i].v[1].id]

\* C35: once every thenable the runs of a reactive text returned has settled
\* and its callbacks have run, the element shows what the thenable of the
\* most recent run resolved to
C35_ShowsMostRecentRun ==
  \A element \in 1..Len(domRenderer.nodes) :
    ( /\ RunsOf(element) # <<>>
      /\ \A i \in 1..Len(RunsOf(element)) : domRenderer.thenables[RunsOf(element)[i]].settled )
    => domRenderer.nodes[element].textContent =
         TextOf(domRenderer.thenables[RunsOf(element)[Len(RunsOf(element))]].value.v)

====
